---- MODULE Spec2Model ----
(***************************************************************************)
(* SmartOllamaProxy: the request path.  One inbound request at a time is   *)
(* resolved to a candidate list, dispatched to a backend router, and, for  *)
(* a streaming response, its generator is drained chunk by chunk.          *)
(***************************************************************************)
EXTENDS Integers, Sequences, FiniteSets, TLC

\* ---------------------------------------------------------------- bounds
\* Backend entries configured in model group "g".
MaxBackends == 3
\* Inbound requests served in one behaviour.
MaxRequests == 2
\* Chunks an upstream (or the SDK) delivers in one streaming response.
MaxChunks == 2

\* ------------------------------------------------------- program constants
\* OpenAIBackendRouter._sdk_check_interval (seconds).
SdkCheckInterval == 300
\* Words of the canned mock text (it holds no whitespace, so split() gives one).
MockWords == 1

\* ------------------------------------------------------------ configuration
\* The `*_backend` keys of group "g", in insertion order.
AllBackendModes == <<"openai_backend", "http_backend", "ollama_backend", "compat_backend">>

\* ModelConfig.backend_order of group "g".
backend_order == SubSeq(AllBackendModes, 1, MaxBackends)

\* The backend_type each backend entry of group "g" declares ("" when none).
DeclaredBackendType(mode) ==
    CASE mode = "openai_backend" -> ""
      [] mode = "http_backend" -> "http"
      [] mode = "ollama_backend" -> "ollama"
      [] OTHER -> "openai_compat"

\* The text of a backend_mode, cut into the words the factory looks for.
ModeWords(mode) ==
    CASE mode = "openai_backend" -> <<"openai", "_backend">>
      [] mode = "openai_backend_eu_backend" -> <<"openai", "_backend", "_eu", "_backend">>
      [] mode = "litellm_backend" -> <<"litellm", "_backend">>
      [] mode = "litellm_backend_eu_backend" -> <<"litellm", "_backend", "_eu", "_backend">>
      [] mode = "my_litellm_backend" -> <<"my_", "litellm", "_backend">>
      [] mode = "http_backend" -> <<"http", "_backend">>
      [] mode = "ollama_backend" -> <<"ollama", "_backend">>
      [] mode = "compat_backend" -> <<"compat", "_backend">>
      [] OTHER -> <<>>

\* `word in backend_mode`.
ModeContains(mode, word) == \E k \in DOMAIN ModeWords(mode) : ModeWords(mode)[k] = word

\* The create_router that takes every backend_mode for an OpenAI one.
create_router_openai_only(backend_type, backend_mode) ==
    IF backend_type \in {"", "http", "openai_compat", "openai", "openai_sdk"} THEN "openai"
    ELSE IF backend_type \in {"litellm", "ollama", "mock"} THEN backend_type
    ELSE "ValueError"

\* BackendRouterFactory.create_router: the driver built for a backend entry
\* that carries a backend_mode ("ValueError" for a type it does not know).
create_router(backend_type, backend_mode) ==
    LET inferred ==
            IF backend_type # "" THEN backend_type
            ELSE IF backend_mode = "litellm_backend" THEN "litellm"
            ELSE IF backend_mode = "openai_backend" THEN "openai"
            ELSE IF ModeContains(backend_mode, "litellm") THEN "litellm"
            ELSE "openai"
        mapped == IF inferred \in {"http", "openai_compat"} THEN "openai" ELSE inferred
    IN  IF mapped \in {"openai", "openai_sdk"} THEN "openai"
        ELSE IF mapped \in {"litellm", "ollama", "mock"} THEN mapped
        ELSE "ValueError"

\* Router names of the registry: one per backend entry, plus mock and local.
GroupRouters == {backend_order[n] : n \in 1..Len(backend_order)}
RouterNames == GroupRouters \cup {"mock", "local"}

\* User-facing model strings, split at the first "/".
ModelStrings == {<<"m">>, <<"g", "m">>, <<"hm">>, <<"zz">>, <<"g", "zz">>}

\* ------------------------------------------------------------------ state
VARIABLES
    hasLocal,         \* the loaded configuration has a group named "local"
    localRegistered,  \* what init_backend_routers registered under "local"
    sdkInstalled,     \* the openai package can be imported
    now,              \* time.time(), in seconds
    sdk_status,       \* OpenAIBackendRouter._sdk_status, per router
    last_sdk_check,   \* OpenAIBackendRouter._last_sdk_check, per router
    client,           \* BackendRouter._client is set, per router
    served,           \* inbound requests received so far
    req,              \* the inbound request being handled
    pc,               \* position of the request: idle, loop, stream, done
    candidates,       \* try_backend_request: the candidate list
    i,                \* try_backend_request: index of the next candidate
    attempts,         \* candidates handed to backend_manager.handle_request, in order
    errors,           \* the exception each failed attempt raised, in order
    last_exception,   \* try_backend_request: last_exception
    response,         \* what the handler returned (or raised) to the ASGI layer
    sent,             \* upstream HTTP/SDK calls issued for this request, per upstream
    gen,              \* the generator behind a StreamingResponse
    upstream_read,    \* chunks the generator has read from its upstream
    downstream,       \* bytes the generator has yielded to the client
    probe,            \* what check_ollama_available reports at the dispatch of `local`
    clients,          \* ClientPool._clients: pool key -> client object
    ref_counts,       \* ClientPool._ref_counts: pool key -> references
    last_used,        \* ClientPool._last_used: pool key -> time
    lock,             \* holder of ClientPool._lock ("" when free)
    clock,            \* time.time() as the pool reads it
    next_id,          \* identity of the next httpx.AsyncClient created
    close_count,      \* aclose() calls so far, per client object
    inflight,         \* per caller: the get_client call suspended in `await client.head`
    router_client,    \* per router: its cached self._client (0 for None)
    streaming,        \* routers whose streaming response is still being sent
    log,              \* the pool calls completed so far, in order
    config_data,      \* ConfigLoader.config_data: the configuration loaded last
    self_models,      \* ConfigLoader.models: group -> ModelConfig
    group_map,        \* ConfigLoader._model_to_group_map: model string -> group
    config_cache,     \* ConfigLoader._model_config_cache: model string -> result
    lookup,           \* the last get_model_config call: its argument and result
    tools_cache,      \* BackendRouter._tools_cache, in insertion order
    prompt_cache,     \* BackendRouter._prompt_cache, in insertion order
    cleanup_at,       \* BackendRouter._last_tools_cleanup and _last_prompt_cleanup
    cache_time,       \* time.time() as the caches read it
    enabled,          \* tool_compression_enabled and prompt_compression_enabled
    calls,            \* the requests the router has optimized so far, in order
    applied,          \* the last function applied: its name, arguments and outcome
    ollama_available_cache,  \* main._ollama_available_cache: result and timestamp
    probing,          \* per caller: the check_ollama_available suspended in its GET
    probe_log         \* the calls of check_ollama_available completed so far

vars == <<hasLocal, localRegistered, sdkInstalled, now, sdk_status, last_sdk_check,
          client, served, req, pc, candidates, i, attempts, errors, last_exception,
          response, sent, gen, upstream_read, downstream, probe,
          clients, ref_counts, last_used, lock, clock, next_id, close_count, inflight,
          router_client, streaming, log,
          config_data, self_models, group_map, config_cache, lookup,
          tools_cache, prompt_cache, cleanup_at, cache_time, enabled, calls, applied,
          ollama_available_cache, probing, probe_log>>

envVars == <<hasLocal, localRegistered, sdkInstalled>>
routerVars == <<sdk_status, last_sdk_check, client>>
loopVars == <<candidates, i, attempts, errors, last_exception>>
streamVars == <<gen, upstream_read, downstream>>
requestVars == <<now, served, req, pc, loopVars, response, sent, streamVars, probe>>
poolVars == <<clients, ref_counts, last_used, lock, clock, next_id, close_count, inflight,
              router_client, streaming, log>>
resolverVars == <<config_data, self_models, group_map, config_cache, lookup>>
cacheVars == <<tools_cache, prompt_cache, cleanup_at, cache_time, enabled, calls>>
callVars == <<applied>>
probeVars == <<ollama_available_cache, probing, probe_log>>
\* What a step of a request leaves alone.
otherVars == <<poolVars, resolverVars, cacheVars, callVars, probeVars>>

\* --------------------------------------------------------------- resolver
\* ConfigLoader.models: the groups of the loaded configuration.
models == {"g", "h"} \cup (IF hasLocal THEN {"local"} ELSE {})

\* ModelConfig.available_models of each group.
available_models(group) ==
    CASE group = "g" -> {"m"}
      [] group = "h" -> {"hm"}
      [] OTHER -> {}

\* ModelConfig.get_ordered_backends: the group's backend entries, insertion order.
get_ordered_backends(group) ==
    IF group = "g" THEN backend_order ELSE <<>>

\* The keys load() indexes for one group: each inner name, and group/inner.
IndexKeys(group) == UNION {{<<m>>, <<group, m>>} : m \in available_models(group)}

\* ConfigLoader._model_to_group_map, built by load() group after group.
model_to_group_map ==
    [k \in IndexKeys("g") \cup IndexKeys("h") |-> IF k \in IndexKeys("h") THEN "h" ELSE "g"]

NotFound == [found |-> FALSE, group |-> "", virtual |-> <<>>]

\* ConfigLoader.get_model_config: (group, virtual model) of a model string.
get_model_config(model_name) ==
    LET prefixed ==
            IF Len(model_name) = 2 /\ model_name[1] \in models
               /\ model_name[2] \in available_models(model_name[1])
            THEN [found |-> TRUE, group |-> model_name[1], virtual |-> <<model_name[2]>>]
            ELSE NotFound
    IN  IF prefixed.found THEN prefixed
        ELSE IF model_name \in DOMAIN model_to_group_map
        THEN [found |-> TRUE, group |-> model_to_group_map[model_name], virtual |-> model_name]
        ELSE IF "local" \in models
        THEN [found |-> TRUE, group |-> "local", virtual |-> model_name]
        ELSE NotFound

\* ConfigLoader.get_backends_for_model: None (use the local Ollama) or the ordered
\* (backend, actual_model) list.
get_backends_for_model(model_name) ==
    LET info == get_model_config(model_name)
        backends == get_ordered_backends(info.group)
    IN  IF ~info.found \/ info.group = "local" \/ backends = <<>>
        THEN [none |-> TRUE, list |-> <<>>]
        ELSE [none |-> FALSE,
              list |-> [n \in 1..Len(backends) |->
                          [backend |-> backends[n], actual_model |-> info.virtual]]]

\* main.get_backend_candidates_for_model: (router_name, backend, actual_model) list.
get_backend_candidates_for_model(model_name) ==
    LET infos == get_backends_for_model(model_name)
    IN  IF infos.none
        THEN <<[router_name |-> "local", backend |-> "", actual_model |-> model_name]>>
        ELSE [n \in 1..Len(infos.list) |->
                [router_name |-> infos.list[n].backend,
                 backend |-> infos.list[n].backend,
                 actual_model |-> infos.list[n].actual_model]]

\* main.get_backend_router_for_model: the first candidate, or none.
get_backend_router_for_model(model_name) ==
    LET cs == get_backend_candidates_for_model(model_name)
    IN  IF cs = <<>> THEN <<>> ELSE <<cs[1]>>

\* ---------------------------------------------------------------- routers
\* The driver registered under a router name (init_backend_routers).
RouterKind(router_name) ==
    CASE router_name = "mock" -> "mock"
      [] router_name = "local" -> localRegistered
      [] OTHER -> create_router(DeclaredBackendType(router_name), router_name)

\* The upstream a router's calls go to.  An Ollama router is built by the factory
\* with the default base_url, so it talks to the local daemon.
UpstreamOf(router_name) ==
    CASE RouterKind(router_name) = "ollama" -> "localhost"
      [] RouterKind(router_name) = "mock" -> "mock"
      [] OTHER -> router_name

Upstreams == GroupRouters \cup {"localhost", "mock"}

\* HTTP statuses an upstream answers with.
UpstreamStatuses == {200, 429, 500}

\* What one upstream HTTP call ends in: a status, or a transport error.
UpstreamOutcomes ==
    {[kind |-> "status", status |-> s] : s \in UpstreamStatuses}
        \cup {[kind |-> "transport", status |-> 0]}

\* What one non-stream SDK call ends in.
SdkOutcomes == {"ok", "auth", "other"}

Ok(resp) == [ok |-> TRUE, resp |-> resp]
Raise(exc) == [ok |-> FALSE, exc |-> exc]

JSONResponse(origin, shape) == [type |-> "json", origin |-> origin, shape |-> shape]
StreamingResponse(gen_kind, router_name, sse) ==
    [type |-> "stream", gen_kind |-> gen_kind, router |-> router_name, sse |-> sse]

HTTPException(status_code, cause, upstream_status, origin, raised_by) ==
    [type |-> "HTTPException", status_code |-> status_code, cause |-> cause,
     upstream_status |-> upstream_status, origin |-> origin, raised_by |-> raised_by]

\* An exception that is no HTTPException (httpx.AsyncClient could not be built).
ClientInitError(origin) ==
    [type |-> "Exception", status_code |-> 0, cause |-> "client_init",
     upstream_status |-> 0, origin |-> origin, raised_by |-> "client_pool"]

\* The routers' mutable state and the calls issued, threaded through a request.
\* `path` lists what the router has tried for the request, in order.
World == [sdk_status |-> sdk_status, last_sdk_check |-> last_sdk_check,
          client |-> client, sent |-> sent, path |-> <<>>]

Via(w, tried) == [w EXCEPT !.path = Append(@, tried)]

Effect(w, result) == [w |-> w, result |-> result]

Send(w, upstream) == [w EXCEPT !.sent[upstream] = @ + 1]

\* `if self._client is None: self._client = await client_pool.get_client(...)`:
\* the worlds after a successful acquire.
WithClient(w, r) == [w EXCEPT !.client[r] = TRUE]

\* The acquire fails (the exception leaves the router) only when no client is cached.
AcquireFailures(w, r) ==
    IF w.client[r] THEN {} ELSE {Effect(w, Raise(ClientInitError(r)))}

\* OpenAIBackendRouter._handle_json_request: any failure, the non-200 status
\* included, leaves as HTTPException(500).
openai_handle_json_request(r, o) ==
    IF o.kind = "status" /\ o.status = 200
    THEN Ok(JSONResponse(UpstreamOf(r), "openai"))
    ELSE Raise(HTTPException(500, o.kind, o.status, UpstreamOf(r), "_handle_json_request"))

\* OpenAIBackendRouter._handle_with_http.
handle_with_http(w, r, stream) ==
    LET h == Via(w, "http")
    IN  AcquireFailures(h, r) \cup
        (IF stream
         THEN {Effect(WithClient(h, r), Ok(StreamingResponse("base", r, TRUE)))}
         ELSE {Effect(Send(WithClient(h, r), UpstreamOf(r)), openai_handle_json_request(r, o))
                  : o \in UpstreamOutcomes})

\* A router that never tries the SDK again once it is `unavailable`.
SkipSdk_whenever_unavailable(w, r) == w.sdk_status[r] = "unavailable"

\* OpenAIBackendRouter.handle_request: `unavailable` and checked less than the
\* interval ago goes straight to HTTP.
SkipSdk(w, r) ==
    w.sdk_status[r] = "unavailable" /\ now - w.last_sdk_check[r] < SdkCheckInterval

MarkUnavailable(w, r) ==
    [w EXCEPT !.sdk_status[r] = "unavailable", !.last_sdk_check[r] = now]

MarkAvailable(w, r) == [w EXCEPT !.sdk_status[r] = "available"]

\* OpenAIBackendRouter.handle_request after one SDK outcome: success returns,
\* an authentication-shaped failure marks the SDK unavailable, every failure
\* goes on to HTTP.
after_sdk(w, r, stream, o) ==
    CASE o = "ok" ->
            {Effect(MarkAvailable(Via(w, IF stream THEN "sdk:stream" ELSE "sdk:ok"), r),
                    Ok(IF stream THEN StreamingResponse("sdk", r, TRUE)
                       ELSE JSONResponse(UpstreamOf(r), "openai")))}
      [] o = "auth" -> handle_with_http(MarkUnavailable(Via(w, "sdk:auth"), r), r, stream)
      [] OTHER -> handle_with_http(Via(w, "sdk:other"), r, stream)

\* OpenAIBackendRouter.handle_request: SDK first, HTTP on any SDK failure.  A
\* stream request issues no SDK call here (the generator does, later): only the
\* SDK client's construction can fail.
openai_handle_request(w, r, stream) ==
    IF SkipSdk(w, r) THEN handle_with_http(w, r, stream)
    ELSE IF ~sdkInstalled
    THEN handle_with_http(MarkUnavailable(Via(w, "sdk:absent"), r), r, stream)
    ELSE IF stream
    THEN UNION {after_sdk(w, r, stream, o) : o \in {"ok", "other"}}
    ELSE UNION {after_sdk(Send(w, UpstreamOf(r)), r, stream, o) : o \in SdkOutcomes}

\* OllamaBackendRouter.handle_request: /v1/chat/completions for a body with
\* messages, /api/generate otherwise.
ollama_handle_request(w, r, stream, messages) ==
    AcquireFailures(w, r) \cup
    (IF stream
     THEN {Effect(WithClient(w, r), Ok(StreamingResponse("ollama", r, messages)))}
     ELSE {Effect(Send(WithClient(w, r), UpstreamOf(r)),
                  IF o.kind = "status" /\ o.status = 200
                  THEN Ok(JSONResponse(UpstreamOf(r), IF messages THEN "openai" ELSE "ollama"))
                  ELSE Raise(HTTPException(500, o.kind, o.status, UpstreamOf(r),
                                           "OllamaBackendRouter.handle_request")))
              : o \in UpstreamOutcomes})

\* MockBackendRouter.handle_request: a canned response, no I/O.
mock_handle_request(w, r, stream, messages) ==
    IF stream THEN {Effect(w, Ok(StreamingResponse("mock", r, messages)))}
    ELSE {Effect(w, Ok(JSONResponse("mock", IF messages THEN "openai" ELSE "ollama")))}

router_handle_request(w, r, stream, messages) ==
    CASE RouterKind(r) = "openai" -> openai_handle_request(w, r, stream)
      [] RouterKind(r) = "ollama" -> ollama_handle_request(w, r, stream, messages)
      [] OTHER -> mock_handle_request(w, r, stream, messages)

\* <Router>.convert_to_ollama_format on a JSONResponse: the OpenAI router builds
\* the Ollama generate shape, the Ollama and mock routers return the body as is.
convert_to_ollama_format(r, resp) ==
    IF RouterKind(r) = "openai" THEN [resp EXCEPT !.shape = "ollama"] ELSE resp

\* BackendManager.handle_request: the router's answer, translated when asked to.
backend_manager_handle_request(w, router_name, stream, messages, convert_to_ollama) ==
    {IF e.result.ok /\ convert_to_ollama /\ ~stream /\ e.result.resp.type = "json"
     THEN Effect(e.w, Ok(convert_to_ollama_format(router_name, e.result.resp)))
     ELSE e
        : e \in router_handle_request(w, router_name, stream, messages)}

\* ------------------------------------------------------- request lifecycle
NoException ==
    [type |-> "None", status_code |-> 0, cause |-> "", upstream_status |-> 0,
     origin |-> "", raised_by |-> ""]

NoResponse == [kind |-> "none", status_code |-> 0]
NoRequest == [entry |-> "none", model |-> <<>>, stream |-> FALSE, messages |-> FALSE,
              convert_to_ollama |-> FALSE, body |-> "json"]
NoGen == [kind |-> "none", router |-> "", sse |-> FALSE, phase |-> "none", chunks |-> 0,
          error |-> FALSE, status |-> 0]

\* A JSONResponse or StreamingResponse handed to the ASGI layer.
Returned(resp) ==
    IF resp.type = "json"
    THEN [kind |-> "json", status_code |-> 200, origin |-> resp.origin, shape |-> resp.shape]
    ELSE [kind |-> "stream", status_code |-> 200, origin |-> UpstreamOf(resp.router),
          router |-> resp.router]

\* An HTTPException raised out of the handler: FastAPI answers with its status.
RaisedToClient(exc) == [kind |-> "error", status_code |-> exc.status_code, exc |-> exc]

\* `raise HTTPException(status_code=500, detail=...str(e))`: a new exception that
\* keeps the text of e.
Wrap500(exc, by) == HTTPException(500, exc.cause, exc.upstream_status, exc.origin, by)

NewGen(resp) ==
    IF resp.type = "stream"
    THEN [kind |-> resp.gen_kind, router |-> resp.router, sse |-> resp.sse,
          phase |-> "created", chunks |-> 0, error |-> FALSE, status |-> 0]
    ELSE NoGen

ApplyWorld(w) ==
    /\ sdk_status' = w.sdk_status
    /\ last_sdk_check' = w.last_sdk_check
    /\ client' = w.client
    /\ sent' = w.sent

\* The calls the model makes: try_backend_request with the parameters a caller
\* may pass, and the two inbound handlers with the fields of a request body.
\* `body` is how the raw body parses: "json" at once, "cleaned" only after being
\* re-decoded with replacement characters, "invalid" not at all.
Requests ==
    {[entry |-> "try_backend_request", model |-> m, stream |-> st, messages |-> ms,
      convert_to_ollama |-> FALSE, body |-> "json"]
        : m \in ModelStrings, st \in BOOLEAN, ms \in BOOLEAN}
    \cup
    {[entry |-> "generate", model |-> m, stream |-> st, messages |-> FALSE,
      convert_to_ollama |-> FALSE, body |-> "json"] : m \in ModelStrings, st \in BOOLEAN}
    \cup
    {[entry |-> "openai_chat_completions", model |-> m, stream |-> st, messages |-> ms,
      convert_to_ollama |-> FALSE, body |-> "json"]
        : m \in ModelStrings, st \in BOOLEAN, ms \in BOOLEAN}
    \cup
    {[entry |-> "openai_chat_completions", model |-> <<"m">>, stream |-> FALSE,
      messages |-> TRUE, convert_to_ollama |-> FALSE, body |-> b]
        : b \in {"cleaned", "invalid"}}

\* `await request.json()`.
request_json(body) == body = "json"

\* `json.loads(raw_body.decode('utf-8', errors='replace'))`.
json_loads_replaced(body) == body \in {"json", "cleaned"}

\* ------------------------------------------------------------ client pool
\* ClientPool.HEALTH_CHECK_THRESHOLD and HEALTH_CHECK_TIMEOUT, in seconds.
HEALTH_CHECK_THRESHOLD == 30
HEALTH_CHECK_TIMEOUT == 2

\* Pool calls per behaviour, and the pool clock's step and last value.
MaxOps == 4
PoolTickStep == 20
MaxClock == 40

\* Routers with a cached client, and a caller that uses the pool directly.
Routers == {"r1", "r2"}
\* A request that router r1 handles concurrently with its other requests: the
\* one that may find the pool lock held.
SecondRequests == {"r1b"}
PoolCallers == Routers \cup SecondRequests \cup {"c1"}
\* The router whose handle_request a request runs in.
RouterOf(c) == IF c \in SecondRequests THEN "r1" ELSE c

\* A base_url is its characters: the host, then trailing slashes.
PoolArgs ==
    {[base_url |-> <<"u">>, api_key |-> "a", compression |-> TRUE],
     [base_url |-> <<"u", "/">>, api_key |-> "a", compression |-> TRUE],
     [base_url |-> <<"u">>, api_key |-> "a", compression |-> FALSE]}

\* The configuration each router passes to get_client: two routers of the same
\* provider, registered under two group.backend names.
RouterArgs(r) ==
    IF r = "r1" THEN [base_url |-> <<"u">>, api_key |-> "a", compression |-> TRUE]
    ELSE [base_url |-> <<"u", "/">>, api_key |-> "a", compression |-> TRUE]

\* A key built from the base URL as given.
rstrip_kept(url) == url

\* str.rstrip('/').
RECURSIVE rstrip(_)
rstrip(url) ==
    IF url # <<>> /\ url[Len(url)] = "/" THEN rstrip(SubSeq(url, 1, Len(url) - 1)) ELSE url

\* `client_key = (base_url.rstrip('/'), api_key, compression)`.
client_key(args) == <<rstrip(args.base_url), args.api_key, args.compression>>

\* A pool that trusts an idle client without asking.
needs_health_check_never(idle) == FALSE

\* `current_time - last_used > self.HEALTH_CHECK_THRESHOLD`.
needs_health_check(idle) == idle > HEALTH_CHECK_THRESHOLD

\* What `await client.head(url, timeout=HEALTH_CHECK_TIMEOUT)` meets: whether the
\* upstream answers, and after how many seconds.
HeadOutcomes ==
    {[answers |-> TRUE, latency |-> 1], [answers |-> TRUE, latency |-> 3],
     [answers |-> FALSE, latency |-> 1]}

\* The HEAD returns without raising.
head_ok(o) == o.answers /\ o.latency <= HEALTH_CHECK_TIMEOUT

\* A release that lets a count of zero stay in the pool.
ref_exhausted_below(count) == count < 0

\* `if self._ref_counts[client_key] <= 0`.
ref_exhausted(count) == count <= 0

\* A pool whose operations do not wait for the lock.
lock_ignored(holder) == TRUE

\* `async with self._lock` can be entered.
lock_free(holder) == holder = ""

\* dict operations.
DictSet(d, k, v) == [x \in DOMAIN d \cup {k} |-> IF x = k THEN v ELSE d[x]]
DictPop(d, k) == [x \in DOMAIN d \ {k} |-> d[x]]
DictValues(d) == {d[x] : x \in DOMAIN d}

Idle == [pc |-> "idle", args |-> <<>>, op |-> "", at |-> 0, idle |-> 0, stream |-> FALSE]

PoolFresh ==
    /\ clients = <<>>
    /\ ref_counts = <<>>
    /\ last_used = <<>>
    /\ lock = ""
    /\ clock = 0
    /\ next_id = 1
    /\ close_count = <<>>
    /\ inflight = [c \in PoolCallers |-> Idle]
    /\ router_client = [r \in Routers |-> 0]
    /\ streaming = {}
    /\ log = <<>>

\* ------------------------------------------------ configuration reloads
\* Configurations a config.yaml can hold: the `models` section as an ordered
\* list of groups.  A name is the sequence of its parts between "/"; a key of
\* a group is a word, followed by "_backend" for a backend entry.  The value
\* of available_models[name].actual_model is "absent" when the key is not
\* given and "null" when it is given as null.
Configs ==
    {<<>>,
     <<[group |-> "g", available_models |-> (<<"m">> :> "absent"),
        keys |-> <<<<"description">>, <<"openai", "_backend">>, <<"http", "_backend">>>>]>>,
     <<[group |-> "h", available_models |-> (<<"m">> :> <<"real">>),
        keys |-> <<<<"http", "_backend">>, <<"description">>, <<"openai", "_backend">>>>]>>,
     <<[group |-> "g", available_models |-> (<<"n">> :> "null"),
        keys |-> <<<<"ollama", "_backend">>>>],
       [group |-> "local", available_models |-> <<>>, keys |-> <<>>]>>,
     <<[group |-> "a", available_models |-> (<<"b">> :> "absent"),
        keys |-> <<<<"openai", "_backend">>>>],
       [group |-> "g", available_models |-> (<<"a", "b">> :> "absent"),
        keys |-> <<<<"http", "_backend">>>>]>>}

\* Model strings looked up: "m", "g/n", "g/m", "h/m", "zz", "a/b", "g/a/b".
LookupStrings ==
    {<<"m">>, <<"g", "n">>, <<"g", "m">>, <<"h", "m">>, <<"zz">>, <<"a", "b">>,
     <<"g", "a", "b">>}

\* ModelConfig.__init__: the model names, their actual_model (the name itself
\* when not given), and the keys ending in "_backend" in the order of the file.
ModelConfig(model_group, group_data) ==
    [model_group |-> model_group,
     available_models |-> DOMAIN group_data.available_models,
     actual_model |-> [name \in DOMAIN group_data.available_models |->
                          IF group_data.available_models[name] = "absent" THEN name
                          ELSE group_data.available_models[name]],
     backend_order |-> SelectSeq(group_data.keys,
                                 LAMBDA key : key[Len(key)] = "_backend")]

\* A ModelConfig that hands out its backends last entry first.
ModelConfig_backends_reversed(model_config) ==
    [n \in 1..Len(model_config.backend_order) |->
        model_config.backend_order[Len(model_config.backend_order) + 1 - n]]

\* ModelConfig.get_ordered_backends.
ModelConfig_get_ordered_backends(model_config) == model_config.backend_order

\* ConfigLoader after __init__: nothing loaded.
NewLoader == [models |-> <<>>, map |-> <<>>, cache |-> <<>>]

\* The `for model_group, model_data in models_data.items()` loop of load, from
\* its n-th item on: the group's ModelConfig is stored, its model names and
\* "group/model" names are indexed.
RECURSIVE load_groups(_, _, _)
load_groups(self, models_data, n) ==
    IF n > Len(models_data) THEN self
    ELSE LET item == models_data[n]
             keys == UNION {{name, <<item.group>> \o name}
                               : name \in DOMAIN item.available_models}
         IN  load_groups(
                 [self EXCEPT
                    !.models = DictSet(self.models, item.group, ModelConfig(item.group, item)),
                    !.map = [k \in DOMAIN self.map \cup keys |->
                                IF k \in keys THEN item.group ELSE self.map[k]]],
                 models_data, n + 1)

\* ConfigLoader.load: self.models and self._model_to_group_map are written
\* into as they stand, self._model_config_cache is cleared.
ConfigLoader_load(self, models_data) ==
    [load_groups(self, models_data, 1) EXCEPT !.cache = <<>>]

NoResult == [found |-> FALSE, model_config |-> <<>>, actual_model_name |-> <<>>]
Result(model_config, name) ==
    [found |-> TRUE, model_config |-> model_config, actual_model_name |-> name]

\* A lookup that knows the index only.
find_model_config_by_index(self, model_name) ==
    IF model_name \in DOMAIN self.map
    THEN Result(self.models[self.map[model_name]], model_name)
    ELSE NoResult

\* ConfigLoader.get_model_config past the cache: a string with a "/" is split
\* at the first one and tried as group and inner name; then the index, then
\* the `local` group.
find_model_config(self, model_name) ==
    LET prefixed ==
            IF Len(model_name) >= 2 /\ model_name[1] \in DOMAIN self.models
               /\ Tail(model_name) \in self.models[model_name[1]].available_models
            THEN Result(self.models[model_name[1]], Tail(model_name))
            ELSE NoResult
    IN  IF prefixed.found THEN prefixed
        ELSE IF model_name \in DOMAIN self.map
        THEN IF self.map[model_name] \in DOMAIN self.models
             THEN Result(self.models[self.map[model_name]], model_name)
             ELSE NoResult
        ELSE IF "local" \in DOMAIN self.models
        THEN Result(self.models["local"], model_name)
        ELSE NoResult

\* ConfigLoader.get_model_config: the cached result when there is one.
ConfigLoader_get_model_config(self, model_name) ==
    IF model_name \in DOMAIN self.cache THEN self.cache[model_name]
    ELSE find_model_config(self, model_name)

\* ModelConfig.get_actual_model for a backend of the group: the model's
\* actual_model, or the name itself for a name the group does not list.
ModelConfig_get_actual_model(model_config, virtual_model) ==
    IF virtual_model \in model_config.available_models
    THEN model_config.actual_model[virtual_model] ELSE virtual_model

\* ConfigLoader.get_backends_for_model: None, or the (backend, actual model)
\* pairs of the group's backends that yield an actual model, in order.
ConfigLoader_get_backends_for_model(self, model_name) ==
    LET info == ConfigLoader_get_model_config(self, model_name)
        none == [none |-> TRUE, list |-> <<>>]
    IN  IF ~info.found THEN none
        ELSE IF info.model_config.model_group = "local" THEN none
        ELSE LET backends == ModelConfig_get_ordered_backends(info.model_config)
                 actual_model == ModelConfig_get_actual_model(info.model_config,
                                                              info.actual_model_name)
             IN  IF backends = <<>> \/ actual_model = "null" THEN none
                 ELSE [none |-> FALSE,
                       list |-> [n \in 1..Len(backends) |->
                                   [backend |-> backends[n], actual_model |-> actual_model]]]

NoLookup == [model_name |-> <<>>, result |-> NoResult, asked |-> "", backends |-> <<>>]

LoaderFresh ==
    /\ config_data = <<>>
    /\ self_models = NewLoader.models
    /\ group_map = NewLoader.map
    /\ config_cache = NewLoader.cache
    /\ lookup = NoLookup

\* ---------------------------------------------------------- the local probe
\* main.SIMULATE_OLLAMA_TIMEOUT.
SIMULATE_OLLAMA_TIMEOUT == FALSE

\* _ollama_available_cache["ttl"], and the timeout of the probe's client, in
\* seconds.
ollama_ttl == 5
probe_timeout == 1

\* Completed calls, the clock's step and its last value.
MaxProbes == 3
ProbeTickStep == 1
MaxProbeNow == 7

\* Coroutines that call check_ollama_available.
ProbeCallers == {"p1", "p2"}

\* What `await client.get(f"{base_url}/api/tags")` comes to: a response with
\* its status code, or an exception.
GetOutcomes ==
    {[raised |-> "", status_code |-> 200], [raised |-> "", status_code |-> 500],
     [raised |-> "ConnectError", status_code |-> 0],
     [raised |-> "ReadTimeout", status_code |-> 0],
     [raised |-> "Exception", status_code |-> 0]}

\* A Python bool as the cache holds it, next to None.
PyBool(b) == IF b THEN "True" ELSE "False"

\* `result = resp.status_code == 200`, False in both except clauses.
get_result(o) == IF o.raised = "" THEN PyBool(o.status_code = 200) ELSE "False"

\* A cache that holds a result never expires.
cached_forever(cache, current_time) == cache.result # "None"

\* `_ollama_available_cache["result"] is not None and current_time -
\* _ollama_available_cache["timestamp"] < _ollama_available_cache["ttl"]`.
cache_valid(cache, current_time) ==
    cache.result # "None" /\ current_time - cache.timestamp < cache.ttl

NotProbing ==
    [pc |-> "idle", at |-> 0, seen |-> [result |-> "None", timestamp |-> 0, ttl |-> ollama_ttl]]

\* The module as imported.
ProbeFresh ==
    /\ ollama_available_cache = [result |-> "None", timestamp |-> 0, ttl |-> ollama_ttl]
    /\ probing = [p \in ProbeCallers |-> NotProbing]
    /\ probe_log = <<>>

\* --------------------------------------------------- per-session caches
\* BackendRouter._cache_config.
tools_ttl == 300
prompt_ttl == 300
max_cache_size == 100
cleanup_interval == 30

\* Requests optimized, the clock's first value, step and last value, and the
\* length of the long prompt.
MaxCalls == 3
CacheStart == 1000
CacheTickStep == 150
MaxCacheTime == 1300
LongLen == 60

Sess(name, n) == [name |-> name, n |-> n]
NoSession == Sess("", 0)

\* Tool definitions as the JSON text carries them: key_order tells two texts
\* of the same object apart.
Tool(name, parameters, description, key_order) ==
    [name |-> name, parameters |-> parameters, description |-> description,
     key_order |-> key_order]

\* `tools` arrays: one that names f twice, the same with its keys in another
\* order, and a short one.
ToolsF == <<Tool("f", "p", "d", 1), Tool("f", "p", "e", 1), Tool("k", "p", "d", 1)>>
ToolsFReordered == <<Tool("f", "p", "d", 2), Tool("f", "p", "e", 1), Tool("k", "p", "d", 1)>>
ToolsK == <<Tool("k", "p", "d", 1)>>

Chars(n, ch) == [k \in 1..n |-> ch]
Message(role, content) == [role |-> role, content |-> content]

\* `messages` arrays: a long system prompt and a user message that repeats it,
\* a short pair, and a user message alone.
LongPrompt == Chars(LongLen, "a")
MessagesLong == <<Message("system", LongPrompt), Message("user", LongPrompt \o <<"c">>)>>
MessagesShort == <<Message("system", <<"q">>), Message("user", <<"x">>)>>
MessagesUserOnly == <<Message("user", LongPrompt \o <<"c">>)>>

\* Request bodies the router is handed (<<>> for an absent field).
CacheRequests ==
    {[session_id |-> Sess("s1", 0), tools |-> ToolsF, messages |-> MessagesLong],
     [session_id |-> Sess("s1", 0), tools |-> ToolsFReordered, messages |-> <<>>],
     [session_id |-> Sess("s1", 0), tools |-> ToolsK, messages |-> MessagesShort],
     [session_id |-> NoSession, tools |-> <<>>, messages |-> MessagesShort],
     [session_id |-> NoSession, tools |-> ToolsF, messages |-> MessagesUserOnly]}

\* How many other sessions send one request each, one after the other.
BurstSizes == {max_cache_size - 1, max_cache_size}

\* `request_data.get("session_id", "default")`.
session_of(request) ==
    IF request.session_id = NoSession THEN Sess("default", 0) ELSE request.session_id

\* md5 of json.dumps(tools, sort_keys=True): the text with its keys sorted
\* (distinct texts are taken to have distinct digests).
tools_hash(tools) ==
    [k \in DOMAIN tools |-> [name |-> tools[k].name, parameters |-> tools[k].parameters,
                             description |-> tools[k].description]]

\* _compress_tools: the first tool of each (name, parameters) signature.
RECURSIVE compress_tools(_)
compress_tools(tools) ==
    IF tools = <<>> THEN <<>>
    ELSE LET front == compress_tools(SubSeq(tools, 1, Len(tools) - 1))
             last == tools[Len(tools)]
         IN  IF \E k \in DOMAIN front : /\ front[k].name = last.name
                                        /\ front[k].parameters = last.parameters
             THEN front ELSE Append(front, last)

\* A cache whose entries are never taken for fresh.
never_fresh(current_time, timestamp, ttl) == FALSE

\* A cache whose entries never expire.
fresh_forever(current_time, timestamp, ttl) == TRUE

\* `current_time - timestamp < ttl`.
cache_fresh(current_time, timestamp, ttl) == current_time - timestamp < ttl

\* Position of the session's entry in a cache, 0 when it has none.
CacheIndex(cache, session) ==
    IF \E k \in DOMAIN cache : cache[k].session = session
    THEN CHOOSE k \in DOMAIN cache : cache[k].session = session
    ELSE 0

\* `cache[session_id] = entry`: a new key goes last, an old one keeps its place.
CachePut(cache, entry) ==
    IF CacheIndex(cache, entry.session) = 0 THEN Append(cache, entry)
    ELSE [cache EXCEPT ![CacheIndex(cache, entry.session)] = entry]

\* `sorted(cache.items(), key=timestamp)[:n]` deleted: the n oldest entries,
\* the earlier inserted first among equals.
RECURSIVE drop_oldest(_, _)
drop_oldest(cache, n) ==
    IF n = 0 \/ cache = <<>> THEN cache
    ELSE LET k == CHOOSE k \in DOMAIN cache :
                      \A j \in DOMAIN cache :
                          \/ cache[j].timestamp > cache[k].timestamp
                          \/ cache[j].timestamp = cache[k].timestamp /\ j >= k
         IN  drop_oldest(SubSeq(cache, 1, k - 1) \o SubSeq(cache, k + 1, Len(cache)), n - 1)

\* A cleanup that drops the expired entries and stops there.
cleanup_expired_only(cache, last_cleanup, current_time, ttl) ==
    IF Len(cache) <= max_cache_size /\ current_time - last_cleanup < cleanup_interval
    THEN [cache |-> cache, last |-> last_cleanup]
    ELSE [cache |-> SelectSeq(cache, LAMBDA e : ~(current_time - e.timestamp >= ttl)),
          last |-> current_time]

\* _cleanup_tools_cache and _cleanup_prompt_cache: nothing within the cleanup
\* interval unless the cache is over its size; else the expired entries go,
\* then the oldest ones beyond the size.
cleanup_cache(cache, last_cleanup, current_time, ttl) ==
    IF Len(cache) <= max_cache_size /\ current_time - last_cleanup < cleanup_interval
    THEN [cache |-> cache, last |-> last_cleanup]
    ELSE LET live == SelectSeq(cache, LAMBDA e : ~(current_time - e.timestamp >= ttl))
         IN  [cache |-> IF Len(live) > max_cache_size
                        THEN drop_oldest(live, Len(live) - max_cache_size) ELSE live,
              last |-> current_time]

\* One router's caches.
RouterCaches(tools, prompt, cleanup) == [tools |-> tools, prompt |-> prompt, cleanup |-> cleanup]

\* BackendRouter._optimize_tools_in_request: the caches after it, the outgoing
\* tools, and whether the cache answered or a compression was made.
optimize_tools_in_request(self, on, request, current_time) ==
    LET session == session_of(request)
        k == CacheIndex(self.tools, session)
        compressed_tools == compress_tools(request.tools)
        cleaned == cleanup_cache(
                       CachePut(self.tools, [session |-> session,
                                             hash |-> tools_hash(request.tools),
                                             compressed |-> compressed_tools,
                                             timestamp |-> current_time]),
                       self.cleanup.tools, current_time, tools_ttl)
    IN  IF ~on \/ request.tools = <<>>
        THEN [self |-> self, tools |-> request.tools, hit |-> FALSE, compressed |-> FALSE]
        ELSE IF /\ k # 0
                /\ cache_fresh(current_time, self.tools[k].timestamp, tools_ttl)
                /\ self.tools[k].hash = tools_hash(request.tools)
        THEN [self |-> self, tools |-> self.tools[k].compressed, hit |-> TRUE,
              compressed |-> FALSE]
        ELSE [self |-> [self EXCEPT !.tools = cleaned.cache, !.cleanup.tools = cleaned.last],
              tools |-> compressed_tools, hit |-> FALSE, compressed |-> TRUE]

\* BackendRouter._optimize_prompt: the benchmark is the content of a leading
\* system message; the messages go out as they came.
optimize_prompt(self, on, request, current_time) ==
    LET session == session_of(request)
        k == CacheIndex(self.prompt, session)
        benchmark_content == request.messages[1].content
        cleaned == cleanup_cache(
                       CachePut(self.prompt, [session |-> session,
                                              hash |-> benchmark_content,
                                              content |-> benchmark_content,
                                              timestamp |-> current_time]),
                       self.cleanup.prompt, current_time, prompt_ttl)
    IN  IF ~on \/ request.messages = <<>> THEN [self |-> self, messages |-> request.messages]
        ELSE IF request.messages[1].role # "system" \/ benchmark_content = <<>>
        THEN [self |-> self, messages |-> request.messages]
        ELSE IF /\ k # 0
                /\ cache_fresh(current_time, self.prompt[k].timestamp, prompt_ttl)
                /\ self.prompt[k].hash = benchmark_content
        THEN [self |-> self, messages |-> request.messages]
        ELSE [self |-> [self EXCEPT !.prompt = cleaned.cache, !.cleanup.prompt = cleaned.last],
              messages |-> request.messages]

\* OpenAIBackendRouter.handle_request, its first two statements: the tools,
\* then the prompt.
optimize_request(self, flags, request, current_time) ==
    LET t == optimize_tools_in_request(self, flags.tools, request, current_time)
        q == optimize_prompt(t.self, flags.prompt, request, current_time)
    IN  [self |-> q.self, tools |-> t.tools, hit |-> t.hit, compressed |-> t.compressed,
         messages |-> q.messages]

\* Sessions first..last send ToolsK and a short system prompt once each, one
\* after the other (the run is cut in halves).
RECURSIVE optimize_burst(_, _, _, _, _)
optimize_burst(self, flags, first, last, current_time) ==
    IF first > last THEN self
    ELSE IF first = last
    THEN optimize_request(self, flags,
                          [session_id |-> Sess("other", first), tools |-> ToolsK,
                           messages |-> MessagesShort],
                          current_time).self
    ELSE LET half == optimize_burst(self, flags, first, (first + last) \div 2, current_time)
         IN  \* the first half's requests are over before the second half's begin
             IF Len(half.tools) >= 0 /\ Len(half.prompt) >= 0
             THEN optimize_burst(half, flags, (first + last) \div 2 + 1, last, current_time)
             ELSE half

\* The caches of a router just built, at the time of the first request.
CacheIdle ==
    /\ tools_cache = <<>>
    /\ prompt_cache = <<>>
    /\ cleanup_at = [tools |-> 0, prompt |-> 0]
    /\ cache_time = CacheStart
    /\ calls = <<>>

\* A router built with the default flags.
CacheFresh == CacheIdle /\ enabled = [tools |-> TRUE, prompt |-> TRUE]

\* No function has been applied.
NoCall == [fn |-> "none"]

\* The clock's step and its last value.
TickStep == 300
MaxNow == 300

Init ==
    /\ hasLocal \in BOOLEAN
    /\ localRegistered \in {"ollama", "mock"}
    /\ sdkInstalled \in BOOLEAN
    /\ now = 0
    /\ sdk_status = [r \in RouterNames |-> "unknown"]
    /\ last_sdk_check = [r \in RouterNames |-> 0]
    /\ client = [r \in RouterNames |-> FALSE]
    /\ served = 0
    /\ req = NoRequest
    /\ pc = "idle"
    /\ candidates = <<>>
    /\ i = 1
    /\ attempts = <<>>
    /\ errors = <<>>
    /\ last_exception = NoException
    /\ response = NoResponse
    /\ sent = [u \in Upstreams |-> 0]
    /\ gen = NoGen
    /\ upstream_read = <<>>
    /\ downstream = <<>>
    /\ probe = "none"
    /\ PoolFresh
    /\ LoaderFresh
    /\ CacheFresh
    /\ ProbeFresh
    /\ applied = NoCall

\* Time passes between two requests (only a later request reads the clock).
Tick ==
    /\ pc = "done"
    /\ served < MaxRequests
    /\ now + TickStep <= MaxNow
    /\ now' = now + TickStep
    /\ UNCHANGED <<otherVars, probe, envVars, routerVars, served, req, pc, loopVars, response, sent, streamVars>>

\* An inbound request (or a call of try_backend_request) arrives; the state of
\* the previous one is dropped.
Receive ==
    /\ pc \in {"idle", "done"}
    /\ served < MaxRequests
    /\ \E r \in Requests :
        /\ req' = r
        /\ pc' = IF r.entry = "try_backend_request" THEN "try" ELSE "handler"
    /\ served' = served + 1
    /\ candidates' = <<>>
    /\ i' = 1
    /\ attempts' = <<>>
    /\ errors' = <<>>
    /\ last_exception' = NoException
    /\ response' = NoResponse
    /\ sent' = [u \in Upstreams |-> 0]
    /\ gen' = NoGen
    /\ upstream_read' = <<>>
    /\ downstream' = <<>>
    /\ probe' = "none"
    /\ UNCHANGED <<otherVars, envVars, routerVars, now>>

\* main.check_ollama_available as the dispatch of a candidate sees it: no
\* report for a candidate other than `local`.
ProbeReport(local, ollama_available) ==
    IF ~local THEN "none" ELSE IF ollama_available THEN "up" ELSE "down"

\* ------------------------------------------------------ try_backend_request
\* A loop that skips the candidate after a failed one (C1 does not hold of it).
NextCandidateSkipping(k) == k + 2

\* The loop's advance to the next candidate (`continue`).
NextCandidate(k) == k + 1

\* A loop that keeps the first exception it saw (C5 does not hold of it).
RememberFirst(previous, exc) == IF previous.type = "None" THEN exc ELSE previous

\* `last_exception = e`.
Remember(previous, exc) == exc

\* `return response`: the loop is left; a StreamingResponse is drained afterwards.
AfterReturn(resp) == IF resp.type = "stream" THEN "stream" ELSE "done"

\* After the loop: the last exception itself when it is an HTTPException, a new
\* HTTPException(500) carrying its text otherwise.
RaiseLast(exc) ==
    IF exc.type = "HTTPException" THEN exc ELSE Wrap500(exc, "try_backend_request")

\* try_backend_request, up to the loop: resolve the candidates, 404 when none.
TryStart ==
    /\ pc = "try"
    /\ LET cs == get_backend_candidates_for_model(req.model)
       IN  /\ candidates' = cs
           /\ IF cs = <<>>
              THEN /\ response' = RaisedToClient(
                                     HTTPException(404, "not_found", 0, "", "try_backend_request"))
                   /\ pc' = "done"
              ELSE /\ response' = response
                   /\ pc' = "loop"
    /\ UNCHANGED <<otherVars, probe, envVars, routerVars, now, served, req, i, attempts, errors,
                   last_exception, sent, streamVars>>

\* One iteration of the loop: the local probe for a `local` candidate, then
\* backend_manager.handle_request; success returns, failure is remembered.
TryAttempt ==
    /\ pc = "loop"
    /\ i <= Len(candidates)
    /\ \E ollama_available \in BOOLEAN :
        LET cand == candidates[i]
            router_name == IF cand.router_name = "local" /\ ~ollama_available
                           THEN "mock" ELSE cand.router_name
        IN  \E e \in backend_manager_handle_request(World, router_name, req.stream,
                                                    req.messages, req.convert_to_ollama) :
                /\ ApplyWorld(e.w)
                /\ probe' = ProbeReport(cand.router_name = "local", ollama_available)
                /\ attempts' = Append(attempts, i)
                /\ IF e.result.ok
                   THEN /\ response' = Returned(e.result.resp)
                        /\ gen' = NewGen(e.result.resp)
                        /\ pc' = AfterReturn(e.result.resp)
                        /\ UNCHANGED <<i, errors, last_exception>>
                   ELSE /\ last_exception' = Remember(last_exception, e.result.exc)
                        /\ errors' = Append(errors, e.result.exc)
                        /\ i' = NextCandidate(i)
                        /\ UNCHANGED <<response, gen, pc>>
    /\ UNCHANGED <<otherVars, envVars, now, served, req, candidates, upstream_read, downstream>>

\* All candidates failed: the last exception is raised.
TryExhausted ==
    /\ pc = "loop"
    /\ i > Len(candidates)
    /\ response' = RaisedToClient(RaiseLast(last_exception))
    /\ pc' = "done"
    /\ UNCHANGED <<otherVars, probe, envVars, routerVars, now, served, req, loopVars, sent, streamVars>>

\* ------------------------------------------------------- inbound handlers
\* main.generate (POST /api/generate): the first candidate only; every
\* exception, the 404 included, leaves as HTTPException(500).
Generate ==
    /\ pc = "handler"
    /\ req.entry = "generate"
    /\ candidates' = get_backend_candidates_for_model(req.model)
    /\ LET info == get_backend_router_for_model(req.model)
       IN  IF info = <<>>
           THEN /\ response' = RaisedToClient(
                        Wrap500(HTTPException(404, "not_found", 0, "", "generate"), "generate"))
                /\ pc' = "done"
                /\ UNCHANGED <<routerVars, sent, attempts, errors, gen, probe>>
           ELSE \E ollama_available \in BOOLEAN :
                LET local == info[1].router_name = "local"
                    router_name == IF local /\ ~ollama_available
                                   THEN "mock" ELSE info[1].router_name
                IN  \E e \in backend_manager_handle_request(
                                World, router_name, req.stream, ~local, ~local /\ ~req.stream) :
                        /\ ApplyWorld(e.w)
                        /\ probe' = ProbeReport(local, ollama_available)
                        /\ attempts' = Append(attempts, 1)
                        /\ IF e.result.ok
                           THEN /\ response' = Returned(e.result.resp)
                                /\ gen' = NewGen(e.result.resp)
                                /\ pc' = AfterReturn(e.result.resp)
                                /\ errors' = errors
                           ELSE /\ response' = RaisedToClient(Wrap500(e.result.exc, "generate"))
                                /\ errors' = Append(errors, e.result.exc)
                                /\ pc' = "done"
                                /\ gen' = gen
    /\ UNCHANGED <<otherVars, envVars, now, served, req, i, last_exception, upstream_read, downstream>>

\* main.openai_chat_completions (POST /v1/chat/completions): the body is parsed
\* (the 400 for an unparseable one is raised inside the outer try), then the
\* first candidate only, under the registered name, no translation.  The
\* handler does not call check_ollama_available: ollama_available is what the
\* call would have returned, and the router name is used as resolved.
OpenaiChatCompletions ==
    /\ pc = "handler"
    /\ req.entry = "openai_chat_completions"
    /\ candidates' = IF request_json(req.body) \/ json_loads_replaced(req.body)
                     THEN get_backend_candidates_for_model(req.model) ELSE candidates
    /\ LET info == get_backend_router_for_model(req.model)
       IN  IF ~request_json(req.body) /\ ~json_loads_replaced(req.body)
           THEN /\ response' = RaisedToClient(
                        Wrap500(HTTPException(400, "invalid_json", 0, "", "openai_chat_completions"),
                                "openai_chat_completions"))
                /\ pc' = "done"
                /\ UNCHANGED <<routerVars, sent, attempts, errors, gen, probe>>
           ELSE IF info = <<>>
           THEN /\ response' = RaisedToClient(
                        Wrap500(HTTPException(404, "not_found", 0, "", "openai_chat_completions"),
                                "openai_chat_completions"))
                /\ pc' = "done"
                /\ UNCHANGED <<routerVars, sent, attempts, errors, gen, probe>>
           ELSE \E ollama_available \in BOOLEAN :
                \E e \in backend_manager_handle_request(
                            World, info[1].router_name, req.stream, req.messages, FALSE) :
                    /\ ApplyWorld(e.w)
                    /\ probe' = ProbeReport(info[1].router_name = "local", ollama_available)
                    /\ attempts' = Append(attempts, 1)
                    /\ IF e.result.ok
                       THEN /\ response' = Returned(e.result.resp)
                            /\ gen' = NewGen(e.result.resp)
                            /\ pc' = AfterReturn(e.result.resp)
                            /\ errors' = errors
                       ELSE /\ response' = RaisedToClient(
                                    Wrap500(e.result.exc, "openai_chat_completions"))
                            /\ errors' = Append(errors, e.result.exc)
                            /\ pc' = "done"
                            /\ gen' = gen
    /\ UNCHANGED <<otherVars, envVars, now, served, req, i, last_exception, upstream_read, downstream>>

\* ------------------------------------------------------ stream generators
\* Bytes are symbols: "x" a payload byte, "NL" a newline, "DATA" the literal
\* `data: `, "DONE" the literal `[DONE]`, "ERR_BODY" the JSON {"error": <the
\* upstream's body text>}, "ERR_EXC" the JSON {"error": str(exception)}.
SseFrame(payload) == <<"DATA">> \o payload \o <<"NL", "NL">>

\* Chunks an upstream body may arrive in.
UpstreamChunks == {<<>>, <<"x", "NL">>, <<"DATA", "x", "NL", "NL">>}

\* `chunk_end_marker in chunk`, for the SSE marker b'\n\n'.
HasMarker(chunk) ==
    \E k \in 1..(Len(chunk) - 1) : chunk[k] = "NL" /\ chunk[k + 1] = "NL"

RECURSIVE Concat(_)
Concat(chunks) == IF chunks = <<>> THEN <<>> ELSE Head(chunks) \o Concat(Tail(chunks))

\* One step of a generator: its next phase, the chunks it yields, and whether an
\* exception was caught or raised in it.
Step(phase, out, error) == [phase |-> phase, out |-> out, error |-> error]

\* BackendRouter._handle_stream_request.generate -------------------------
\* `except Exception as e: yield f"data: {json.dumps({'error': str(e)})}\n\n"`.
base_on_exception == Step("finished", <<SseFrame(<<"ERR_EXC">>)>>, TRUE)

\* client.stream(...) and raise_for_status().
base_start(o) ==
    IF o.kind = "status" /\ o.status = 200 THEN Step("open", <<>>, FALSE) ELSE base_on_exception

\* `if chunk: ... yield chunk`.
base_chunk(chunk) == Step("open", IF chunk # <<>> THEN <<chunk>> ELSE <<>>, FALSE)

base_end == Step("finished", <<>>, FALSE)

\* OllamaBackendRouter._handle_stream_generic.generic_stream ----------------
ollama_error_chunk(sse, token) == IF sse THEN SseFrame(<<token>>) ELSE <<token>>

ollama_on_exception(sse) == Step("finished", <<ollama_error_chunk(sse, "ERR_EXC")>>, TRUE)

\* self._client.stream(...) and `if response.status_code != 200`.
ollama_start(sse, o) ==
    IF o.kind = "transport" THEN ollama_on_exception(sse)
    ELSE IF o.status # 200 THEN Step("finished", <<ollama_error_chunk(sse, "ERR_BODY")>>, TRUE)
    ELSE Step("open", <<>>, FALSE)

\* The three-way forward of one chunk.
ollama_chunk(sse, chunk) ==
    Step("open",
         <<IF sse /\ HasMarker(chunk) THEN chunk
           ELSE IF sse THEN SseFrame(chunk)
           ELSE chunk>>,
         FALSE)

\* `if is_sse_format: yield b'data: [DONE]\n\n'`.
ollama_end(sse) == Step("finished", IF sse THEN <<SseFrame(<<"DONE">>)>> ELSE <<>>, FALSE)

\* OpenAIBackendRouter._handle_openai_stream.generate: no except clause ---
sdk_on_exception == Step("raised", <<>>, TRUE)

sdk_start(ok) == IF ok THEN Step("open", <<>>, FALSE) ELSE sdk_on_exception

sdk_chunk(chunk) == Step("open", <<SseFrame(chunk)>>, FALSE)

sdk_end == Step("finished", <<SseFrame(<<"DONE">>)>>, FALSE)

\* MockBackendRouter.handle_request.mock_stream --------------------------
mock_chunk(sse) == Step("open", <<IF sse THEN SseFrame(<<"x">>) ELSE <<"x", "NL">>>>, FALSE)

mock_end(sse) == Step("finished", IF sse THEN <<SseFrame(<<"DONE">>)>> ELSE <<>>, FALSE)

\* A dispatch whose loop resumes when the stream it returned fails (C3 does not
\* hold of it).
AfterStreamStepResuming(step) ==
    IF step.error THEN "loop"
    ELSE IF step.phase \in {"finished", "raised"} THEN "done" ELSE "stream"

\* The generator runs after the handler has returned: when it stops, cleanly or
\* not, the request is over.
AfterStreamStep(step) ==
    IF step.phase \in {"finished", "raised"} THEN "done" ELSE "stream"

Emit(step) ==
    /\ gen' = [gen EXCEPT !.phase = step.phase, !.error = step.error]
    /\ downstream' = downstream \o step.out
    /\ pc' = AfterStreamStep(step)

\* The generator's first step: the upstream call is issued only now.
StreamStart ==
    /\ pc = "stream"
    /\ gen.phase = "created"
    /\ \E o \in UpstreamOutcomes :
        LET step == CASE gen.kind = "base" -> base_start(o)
                      [] gen.kind = "ollama" -> ollama_start(gen.sse, o)
                      [] gen.kind = "sdk" -> sdk_start(o.kind = "status" /\ o.status = 200)
                      [] OTHER -> Step("open", <<>>, FALSE)
        IN  /\ gen' = [gen EXCEPT !.phase = step.phase, !.error = step.error,
                                  !.status = IF gen.kind = "mock" THEN 0 ELSE o.status]
            /\ downstream' = downstream \o step.out
            /\ pc' = AfterStreamStep(step)
    /\ sent' = IF gen.kind = "mock" THEN sent
               ELSE [sent EXCEPT ![UpstreamOf(gen.router)] = @ + 1]
    /\ UNCHANGED <<otherVars, probe, envVars, routerVars, now, served, req, loopVars, response, upstream_read>>

\* One chunk arrives from the upstream (or the SDK, or the mock's next word).
StreamChunk ==
    /\ pc = "stream"
    /\ gen.phase = "open"
    /\ gen.chunks < (IF gen.kind = "mock" THEN MockWords ELSE MaxChunks)
    /\ \E chunk \in (IF gen.kind \in {"base", "ollama"} THEN UpstreamChunks ELSE {<<"x">>}) :
        LET step == CASE gen.kind = "base" -> base_chunk(chunk)
                      [] gen.kind = "ollama" -> ollama_chunk(gen.sse, chunk)
                      [] gen.kind = "sdk" -> sdk_chunk(chunk)
                      [] OTHER -> mock_chunk(gen.sse)
        IN  /\ gen' = [gen EXCEPT !.chunks = @ + 1]
            /\ downstream' = downstream \o step.out
            /\ upstream_read' = IF gen.kind = "mock" THEN upstream_read
                                ELSE Append(upstream_read, chunk)
    /\ UNCHANGED <<otherVars, probe, envVars, routerVars, now, served, req, pc, loopVars, response, sent>>

\* A transport error while the body is being read.
StreamFail ==
    /\ pc = "stream"
    /\ gen.phase = "open"
    /\ gen.kind # "mock"
    /\ Emit(CASE gen.kind = "base" -> base_on_exception
              [] gen.kind = "ollama" -> ollama_on_exception(gen.sse)
              [] OTHER -> sdk_on_exception)
    /\ UNCHANGED <<otherVars, probe, envVars, routerVars, now, served, req, loopVars, response, sent,
                   upstream_read>>

\* The upstream body ends.
StreamEnd ==
    /\ pc = "stream"
    /\ gen.phase = "open"
    /\ gen.kind = "mock" => gen.chunks = MockWords
    /\ Emit(CASE gen.kind = "base" -> base_end
              [] gen.kind = "ollama" -> ollama_end(gen.sse)
              [] gen.kind = "sdk" -> sdk_end
              [] OTHER -> mock_end(gen.sse))
    /\ UNCHANGED <<otherVars, probe, envVars, routerVars, now, served, req, loopVars, response, sent,
                   upstream_read>>

Next ==
    \/ Tick
    \/ Receive
    \/ TryStart
    \/ TryAttempt
    \/ TryExhausted
    \/ Generate
    \/ OpenaiChatCompletions
    \/ StreamStart
    \/ StreamChunk
    \/ StreamFail
    \/ StreamEnd

Spec == Init /\ [][Next]_vars

\* ------------------------------------------------- client pool: operations
mainVars == <<envVars, routerVars, requestVars, resolverVars, cacheVars, callVars,
              probeVars>>

\* One completed call, as the properties read it: the client handed out or
\* sent on, the health check made ("none", "ok", "fail"), the client that was
\* pooled under the key before, and whether a release emptied the key.
LogEntry(op, caller, args, at, acquired, cl, head, idle, previous, sent_on, zero) ==
    [op |-> op, caller |-> caller, args |-> args, at |-> at, acquired |-> acquired,
     client |-> cl, head |-> head, idle |-> idle, previous |-> previous,
     sent_on |-> sent_on, zero |-> zero]

\* get_client returns cl to caller c.  A router stores it in self._client and
\* sends the request on it.
Hand(c, call, cl, head, previous) ==
    /\ log' = Append(log, LogEntry(call.op, RouterOf(c), call.args, call.at, TRUE, cl, head,
                                   call.idle, previous,
                                   IF call.op = "handle_request" THEN cl ELSE 0, FALSE))
    /\ router_client' = IF call.op = "handle_request"
                        THEN [router_client EXCEPT ![RouterOf(c)] = cl] ELSE router_client
    /\ streaming' = IF call.op = "handle_request" /\ call.stream
                    THEN streaming \cup {RouterOf(c)} ELSE streaming

\* `client = httpx.AsyncClient(...)` and the three stores.
CreateClient(key) ==
    /\ clients' = DictSet(clients, key, next_id)
    /\ ref_counts' = DictSet(ref_counts, key, 1)
    /\ last_used' = DictSet(last_used, key, clock)
    /\ next_id' = next_id + 1
    /\ close_count' = Append(close_count, 0)

\* ClientPool.get_client from `async with self._lock` to its next suspension:
\* a fresh pooled client is handed out, an absent key gets a new client, a
\* stale one waits for its HEAD with the lock held.
GetClientLocked(c, op, args, stream) ==
    /\ lock_free(lock)
    /\ Len(log) < MaxOps
    /\ LET key == client_key(args)
           present == key \in DOMAIN clients
           idle == IF present THEN clock - last_used[key] ELSE 0
           call == [pc |-> "head", args |-> args, op |-> op, at |-> clock, idle |-> idle,
                    stream |-> stream]
       IN  IF present /\ needs_health_check(idle)
           THEN /\ lock' = c
                /\ inflight' = [inflight EXCEPT ![c] = call]
                /\ UNCHANGED <<clients, ref_counts, last_used, next_id, close_count,
                               router_client, streaming, log>>
           ELSE IF present
           THEN /\ ref_counts' = [ref_counts EXCEPT ![key] = @ + 1]
                /\ last_used' = [last_used EXCEPT ![key] = clock]
                /\ Hand(c, call, clients[key], "none", clients[key])
                /\ inflight' = [inflight EXCEPT ![c] = Idle]
                /\ UNCHANGED <<clients, lock, next_id, close_count>>
           ELSE /\ CreateClient(key)
                /\ Hand(c, call, next_id, "none", 0)
                /\ inflight' = [inflight EXCEPT ![c] = Idle]
                /\ UNCHANGED lock
    /\ UNCHANGED <<clock, mainVars>>

\* A call of get_client that finds the lock free.
GetClientBegin(c, op, args, stream) ==
    /\ inflight[c].pc = "idle"
    /\ GetClientLocked(c, op, args, stream)

\* A request of a router finds `self._client is None` while another coroutine
\* holds the pool lock: its get_client suspends in `async with self._lock`.
RouterAwaitsLock ==
    \E c \in SecondRequests :
        /\ inflight[c].pc = "idle"
        /\ router_client[RouterOf(c)] = 0
        /\ RouterOf(c) \notin streaming
        /\ lock # ""
        /\ Len(log) < MaxOps
        /\ inflight' = [inflight EXCEPT ![c] =
                            [pc |-> "wait", args |-> RouterArgs(RouterOf(c)),
                             op |-> "handle_request", at |-> clock, idle |-> 0,
                             stream |-> FALSE]]
        /\ UNCHANGED <<clients, ref_counts, last_used, lock, clock, next_id, close_count,
                       router_client, streaming, log, mainVars>>

\* The lock is released and a suspended get_client goes on; the request then
\* assigns what it returns to self._client.
RouterGetsLock ==
    \E c \in SecondRequests :
        /\ inflight[c].pc = "wait"
        /\ GetClientLocked(c, "handle_request", inflight[c].args, FALSE)

\* A direct caller of client_pool.get_client.
GetClient == \E args \in PoolArgs : GetClientBegin("c1", "get_client", args, FALSE)

\* A router's handle_request: `if self._client is None: self._client = await
\* client_pool.get_client(...)`, then the upstream request on self._client.
RouterHandleRequest ==
    \E r \in Routers, stream \in BOOLEAN :
        /\ r \notin streaming
        /\ IF router_client[r] = 0
           THEN GetClientBegin(r, "handle_request", RouterArgs(r), stream)
           ELSE /\ inflight[r].pc = "idle"
                /\ Len(log) < MaxOps
                /\ log' = Append(log, LogEntry("handle_request", r, RouterArgs(r), clock, FALSE,
                                               router_client[r], "none", 0, 0,
                                               router_client[r], FALSE))
                /\ streaming' = IF stream THEN streaming \cup {r} ELSE streaming
                /\ UNCHANGED <<clients, ref_counts, last_used, lock, clock, next_id,
                               close_count, inflight, router_client, mainVars>>

\* get_client after `await client.head(...)`: the pooled client on success; on
\* failure the old client is closed and removed and a new one created.
HealthCheckDone ==
    \E c \in PoolCallers, o \in HeadOutcomes :
        /\ inflight[c].pc = "head"
        /\ LET call == inflight[c]
               key == client_key(call.args)
               old == clients[key]
           IN  IF head_ok(o)
               THEN /\ ref_counts' = [ref_counts EXCEPT ![key] = @ + 1]
                    /\ last_used' = [last_used EXCEPT ![key] = call.at]
                    /\ Hand(c, call, old, "ok", old)
                    /\ UNCHANGED <<clients, next_id, close_count>>
               ELSE /\ clients' = DictSet(DictPop(clients, key), key, next_id)
                    /\ ref_counts' = DictSet(DictPop(ref_counts, key), key, 1)
                    /\ last_used' = DictSet(DictPop(last_used, key), key, clock)
                    /\ next_id' = next_id + 1
                    /\ close_count' = Append([close_count EXCEPT ![old] = @ + 1], 0)
                    /\ Hand(c, call, next_id, "fail", old)
        /\ inflight' = [inflight EXCEPT ![c] = Idle]
        /\ lock' = ""
        /\ UNCHANGED <<clock, mainVars>>

\* ClientPool.release_client.
ReleaseClient ==
    \E args \in PoolArgs :
        /\ lock_free(lock)
        /\ Len(log) < MaxOps
        /\ LET key == client_key(args)
               known == key \in DOMAIN ref_counts
               zero == known /\ ref_exhausted(ref_counts[key] - 1)
           IN  /\ IF zero
                  THEN /\ clients' = DictPop(clients, key)
                       /\ ref_counts' = DictPop(ref_counts, key)
                       /\ last_used' = DictPop(last_used, key)
                       /\ close_count' = IF key \in DOMAIN clients
                                         THEN [close_count EXCEPT ![clients[key]] = @ + 1]
                                         ELSE close_count
                  ELSE /\ ref_counts' = IF known THEN [ref_counts EXCEPT ![key] = @ - 1]
                                        ELSE ref_counts
                       /\ UNCHANGED <<clients, last_used, close_count>>
               /\ log' = Append(log, LogEntry("release_client", "", args, clock, FALSE,
                                              IF key \in DOMAIN clients THEN clients[key] ELSE 0,
                                              "none", 0, 0, 0, zero))
        /\ UNCHANGED <<lock, clock, next_id, inflight, router_client, streaming, mainVars>>

\* ClientPool.close_all, up to `await asyncio.gather(*close_tasks)`.
CloseAllBegin ==
    /\ lock_free(lock)
    /\ Len(log) < MaxOps
    /\ lock' = "close_all"
    /\ UNCHANGED <<clients, ref_counts, last_used, clock, next_id, close_count, inflight,
                   router_client, streaming, log, mainVars>>

\* ClientPool.close_all, after the gather: every client closed, the maps cleared.
CloseAllDone ==
    /\ lock = "close_all"
    /\ close_count' = [id \in DOMAIN close_count |->
                          IF id \in DictValues(clients) THEN close_count[id] + 1
                          ELSE close_count[id]]
    /\ clients' = <<>>
    /\ ref_counts' = <<>>
    /\ last_used' = <<>>
    /\ lock' = ""
    /\ log' = Append(log, LogEntry("close_all", "", <<>>, clock, FALSE, 0, "none", 0, 0, 0, TRUE))
    /\ UNCHANGED <<clock, next_id, inflight, router_client, streaming, mainVars>>

\* The client of a streaming response goes away: the generator is cancelled.
\* The router keeps self._client and calls nothing on the pool.
StreamDropped ==
    \E r \in Routers :
        /\ r \in streaming
        /\ streaming' = streaming \ {r}
        /\ UNCHANGED <<clients, ref_counts, last_used, lock, clock, next_id, close_count,
                       inflight, router_client, log, mainVars>>

PoolTick ==
    /\ clock + PoolTickStep <= MaxClock
    /\ clock' = clock + PoolTickStep
    /\ UNCHANGED <<clients, ref_counts, last_used, lock, next_id, close_count, inflight,
                   router_client, streaming, log, mainVars>>

\* No request is in progress, and none arrives.
Quiescent ==
    /\ hasLocal = FALSE
    /\ localRegistered = "mock"
    /\ sdkInstalled = FALSE
    /\ now = 0
    /\ sdk_status = [r \in RouterNames |-> "unknown"]
    /\ last_sdk_check = [r \in RouterNames |-> 0]
    /\ client = [r \in RouterNames |-> FALSE]
    /\ served = 0
    /\ req = NoRequest
    /\ pc = "idle"
    /\ candidates = <<>>
    /\ i = 1
    /\ attempts = <<>>
    /\ errors = <<>>
    /\ last_exception = NoException
    /\ response = NoResponse
    /\ sent = [u \in Upstreams |-> 0]
    /\ gen = NoGen
    /\ upstream_read = <<>>
    /\ downstream = <<>>
    /\ probe = "none"
    /\ PoolFresh
    /\ LoaderFresh
    /\ ProbeFresh

\* The pool and its callers alone.
PoolInit == Quiescent /\ CacheFresh /\ applied = NoCall

PoolNext ==
    \/ GetClient
    \/ RouterHandleRequest
    \/ RouterAwaitsLock
    \/ RouterGetsLock
    \/ HealthCheckDone
    \/ ReleaseClient
    \/ CloseAllBegin
    \/ CloseAllDone
    \/ StreamDropped
    \/ PoolTick

PoolSpec == PoolInit /\ [][PoolNext]_vars

\* ------------------------------------------- configuration reloads: steps
Loader == [models |-> self_models, map |-> group_map, cache |-> config_cache]

\* config_loader.load() reads a configuration file.
Load ==
    \E models_data \in Configs :
        LET self == ConfigLoader_load(Loader, models_data)
        IN  /\ config_data' = models_data
            /\ self_models' = self.models
            /\ group_map' = self.map
            /\ config_cache' = self.cache
            /\ lookup' = NoLookup
    /\ UNCHANGED <<envVars, routerVars, requestVars, poolVars, probeVars, cacheVars, callVars>>

\* config_loader.get_model_config(model_name): the result is cached.
GetModelConfig ==
    \E model_name \in LookupStrings :
        LET result == ConfigLoader_get_model_config(Loader, model_name)
        IN  /\ lookup' = [model_name |-> model_name, result |-> result,
                           asked |-> "get_model_config", backends |-> <<>>]
            /\ config_cache' = DictSet(config_cache, model_name, result)
    /\ UNCHANGED <<config_data, self_models, group_map, envVars, routerVars, requestVars,
                   poolVars, probeVars, cacheVars, callVars>>

\* config_loader.get_backends_for_model(model_name): get_model_config, cached,
\* then the group's backends.
GetBackendsForModel ==
    \E model_name \in LookupStrings :
        LET result == ConfigLoader_get_model_config(Loader, model_name)
        IN  /\ lookup' = [model_name |-> model_name, result |-> result,
                           asked |-> "get_backends_for_model",
                           backends |-> ConfigLoader_get_backends_for_model(Loader, model_name)]
            /\ config_cache' = DictSet(config_cache, model_name, result)
    /\ UNCHANGED <<config_data, self_models, group_map, envVars, routerVars, requestVars,
                   poolVars, probeVars, cacheVars, callVars>>

LoaderInit == PoolInit

LoaderNext ==
    \/ Load
    \/ GetModelConfig
    \/ GetBackendsForModel

LoaderSpec == LoaderInit /\ [][LoaderNext]_vars

\* ------------------------------------------- per-session caches: steps
Caches == RouterCaches(tools_cache, prompt_cache, cleanup_at)

\* The content of the last user message of a messages array (<<>> for none).
RECURSIVE last_user_content(_)
last_user_content(messages) ==
    IF messages = <<>> THEN <<>>
    ELSE IF messages[Len(messages)].role = "user" THEN messages[Len(messages)].content
    ELSE last_user_content(SubSeq(messages, 1, Len(messages) - 1))

\* The benchmark a cache holds for a session (<<>> for none).
benchmark_of(cache, session) ==
    IF CacheIndex(cache, session) = 0 THEN <<>>
    ELSE cache[CacheIndex(cache, session)].content

SetCaches(self) ==
    /\ tools_cache' = self.tools
    /\ prompt_cache' = self.prompt
    /\ cleanup_at' = self.cleanup

\* A request reaches the router: OpenAIBackendRouter.handle_request optimizes
\* its tools and its prompt before anything is sent.
OptimizeRequest ==
    /\ Len(calls) < MaxCalls
    /\ \E request \in CacheRequests :
        LET r == optimize_request(Caches, enabled, request, cache_time)
        IN  /\ SetCaches(r.self)
            /\ calls' = Append(calls,
                   [kind |-> "request", session |-> session_of(request), others |-> 0,
                    at |-> cache_time, session_id |-> request.session_id,
                    first_content |-> IF request.messages = <<>> THEN <<>>
                                      ELSE request.messages[1].content,
                    tools_in |-> request.tools, tools_out |-> r.tools,
                    hit |-> r.hit, compressed |-> r.compressed,
                    content_in |-> last_user_content(request.messages),
                    content_out |-> last_user_content(r.messages),
                    had_benchmark |-> CacheIndex(prompt_cache, session_of(request)) # 0,
                    benchmark_before |-> benchmark_of(prompt_cache, session_of(request)),
                    benchmark_after |-> benchmark_of(r.self.prompt, session_of(request))])
    /\ UNCHANGED <<cache_time, enabled, envVars, routerVars, requestVars, poolVars, probeVars, resolverVars,
                   callVars>>

\* Many other sessions send one request each.
OtherSessionsRequest ==
    /\ Len(calls) < MaxCalls
    /\ \E n \in BurstSizes :
        /\ SetCaches(optimize_burst(Caches, enabled, 1, n, cache_time))
        /\ calls' = Append(calls,
               [kind |-> "burst", session |-> NoSession, others |-> n, at |-> cache_time,
                session_id |-> NoSession, first_content |-> <<>>,
                tools_in |-> ToolsK, tools_out |-> compress_tools(ToolsK),
                hit |-> FALSE, compressed |-> enabled.tools,
                content_in |-> <<>>, content_out |-> <<>>, had_benchmark |-> FALSE,
                benchmark_before |-> <<>>, benchmark_after |-> <<>>])
    /\ UNCHANGED <<cache_time, enabled, envVars, routerVars, requestVars, poolVars, probeVars, resolverVars,
                   callVars>>

CacheTick ==
    /\ cache_time + CacheTickStep <= MaxCacheTime
    /\ cache_time' = cache_time + CacheTickStep
    /\ UNCHANGED <<tools_cache, prompt_cache, cleanup_at, enabled, calls, envVars, routerVars,
                   requestVars, poolVars, probeVars, resolverVars, callVars>>

\* One router and its requests; the flags are those the router was built with.
CacheInit ==
    /\ Quiescent
    /\ CacheIdle
    /\ enabled \in [tools : BOOLEAN, prompt : BOOLEAN]
    /\ applied = NoCall

CacheNext ==
    \/ OptimizeRequest
    \/ OtherSessionsRequest
    \/ CacheTick

CacheSpec == CacheInit /\ [][CacheNext]_vars

\* ------------------------------------------- functions applied on their own
\* The largest usage.total_tokens of a response.
MaxTokens == 2

Contents == {"", "hi", "yo"}
VirtualModels == {"", "v"}

\* `{}`.
EmptyDict == <<>>

\* `d.get(key, default)` for the keys read below.
Has(d, key) == key \in DOMAIN d

\* JSON bodies an upstream answers with: chat completions with and without
\* usage, and bodies that are no chat completion.
ChatCompletion(content) == [choices |-> <<[message |-> [content |-> content]]>>]
ChatCompletionWithUsage(content, total_tokens) ==
    [choices |-> <<[message |-> [content |-> content]]>>,
     usage |-> [total_tokens |-> total_tokens]]
ChatCompletions ==
    {ChatCompletionWithUsage(s, n) : s \in Contents, n \in 0..MaxTokens}
        \cup {ChatCompletion(s) : s \in Contents}
BodiesWithoutChoices ==
    {[model |-> "v", response |-> s, done |-> TRUE] : s \in Contents}
        \cup {[error |-> "bad request"]}
MalformedCompletions ==
    {[choices |-> <<>>], [choices |-> <<[finish_reason |-> "stop"]>>]}
Bodies == ChatCompletions \cup BodiesWithoutChoices \cup MalformedCompletions

\* Python values a converter is handed: a dict, a JSONResponse (its body is
\* the UTF-8 bytes of the JSON text of its content), or something else.
json_dumps(value) == [json |-> value]
json_loads(text) == text.json
encode(text) == [utf8 |-> text]
decode(bytes) == bytes.utf8
PyDict(value) == [py |-> "dict", dict |-> value]
JSONResponseOf(content) == [py |-> "JSONResponse", body |-> encode(json_dumps(content))]
AStreamingResponse == [py |-> "AStreamingResponse"]
PyStr == [py |-> "str"]

\* How a call ends.
Returns(value) == [raised |-> "", value |-> value]
Raises(exception) == [raised |-> exception]

\* The first lines of every converter: the dict itself, or the parsed body.
openai_result_of(response_data) ==
    IF response_data.py = "dict" THEN Returns(response_data.dict)
    ELSE IF Has(response_data, "body") THEN Returns(json_loads(decode(response_data.body)))
    ELSE Raises("ValueError")

\* total_duration counted in tokens.
total_duration_in_tokens(openai_result) ==
    IF Has(openai_result, "usage") /\ Has(openai_result.usage, "total_tokens")
    THEN openai_result.usage.total_tokens ELSE 0

\* `openai_result.get("usage", {}).get("total_tokens", 0) * 50_000_000`.
total_duration(openai_result) ==
    (IF Has(openai_result, "usage") /\ Has(openai_result.usage, "total_tokens")
     THEN openai_result.usage.total_tokens ELSE 0) * 50000000

\* ResponseConverter.convert_to_ollama_format.
ResponseConverter_convert_to_ollama_format(response_data, virtual_model) ==
    LET parsed == openai_result_of(response_data)
        openai_result == parsed.value
        choices == IF Has(openai_result, "choices") THEN openai_result.choices ELSE <<>>
        message == IF Has(choices[1], "message") THEN choices[1].message ELSE EmptyDict
        content == IF Has(message, "content") THEN message.content ELSE ""
    IN  IF parsed.raised # "" THEN parsed
        ELSE IF choices = <<>> THEN Returns(openai_result)
        ELSE Returns([model |-> virtual_model, response |-> content, done |-> TRUE,
                     total_duration |-> total_duration(openai_result)])

\* OpenAIBackendRouter.convert_to_ollama_format (LiteLLMRouter's has the same
\* text): `openai_result["choices"][0]["message"]["content"]`.
OpenAIBackendRouter_convert_to_ollama_format(response_data, virtual_model) ==
    LET parsed == openai_result_of(response_data)
        openai_result == parsed.value
    IN  IF parsed.raised # "" THEN parsed
        ELSE IF ~Has(openai_result, "choices") THEN Raises("KeyError")
        ELSE IF openai_result.choices = <<>> THEN Raises("IndexError")
        ELSE IF ~Has(openai_result.choices[1], "message") THEN Raises("KeyError")
        ELSE IF ~Has(openai_result.choices[1].message, "content") THEN Raises("KeyError")
        ELSE Returns([model |-> virtual_model,
                     response |-> openai_result.choices[1].message.content,
                     done |-> TRUE,
                     total_duration |-> total_duration(openai_result)])

\* `router.convert_to_ollama_format`, by the router's class: the Ollama and
\* mock routers hand back the dict or the parsed body.
router_convert_to_ollama_format(kind, response_data, virtual_model) ==
    IF kind \in {"openai", "litellm"}
    THEN OpenAIBackendRouter_convert_to_ollama_format(response_data, virtual_model)
    ELSE openai_result_of(response_data)

\* BackendManager.handle_request after `router.handle_request` has answered.
BackendManager_convert_response(kind, resp, convert_to_ollama, stream, virtual_model) ==
    IF convert_to_ollama /\ ~stream /\ virtual_model # "" /\ resp.py = "JSONResponse"
    THEN LET ollama_result == router_convert_to_ollama_format(kind, resp, virtual_model)
         IN  IF ollama_result.raised # "" THEN ollama_result
             ELSE Returns(JSONResponseOf(ollama_result.value))
    ELSE Returns(resp)

\* backend_mode and backend_type values of a backend entry.
FactoryModes ==
    {"openai_backend", "openai_backend_eu_backend", "litellm_backend",
     "litellm_backend_eu_backend", "my_litellm_backend", "http_backend", "ollama_backend",
     "compat_backend"}
FactoryTypes ==
    {"", "http", "openai_compat", "openai_sdk", "openai", "litellm", "ollama", "mock", "grpc"}
RouterClasses == {"openai", "litellm", "ollama", "mock"}

\* Request bodies an inbound handler builds (<<>> for an absent field).
RequestBodies ==
    {[model |-> m, session_id |-> NoSession, tools |-> t, messages |-> ms]
        : m \in {<<>>, <<"v">>}, t \in {<<>>, ToolsF, ToolsK}, ms \in {<<>>, MessagesShort}}

\* Candidates of one dispatch: the class of the router, the model name the
\* configuration gives it, and whether its upstream call fails.
DispatchCandidates ==
    {[class |-> c, actual_model |-> <<"a", c>>, fails |-> f]
        : c \in RouterClasses, f \in BOOLEAN}

\* The caches of a router that has handled nothing yet.
NewRouterCaches == RouterCaches(<<>>, <<>>, [tools |-> 0, prompt |-> 0])

\* The dict a router's handle_request was handed, as the router leaves it
\* before its upstream call or its canned response: the OpenAI and LiteLLM
\* routers assign the optimized tools to it, the Ollama router gives a
\* generate body without a model the candidate's model name, the mock router
\* writes nothing.
handle_request_in_place(class, actual_model, request_data) ==
    CASE class \in {"openai", "litellm"} ->
             [request_data EXCEPT !.tools =
                  optimize_request(NewRouterCaches, [tools |-> TRUE, prompt |-> TRUE],
                                   request_data, CacheStart).tools]
      [] class = "ollama" ->
             IF request_data.messages = <<>> /\ request_data.model = <<>>
             THEN [request_data EXCEPT !.model = actual_model]
             ELSE request_data
      [] OTHER -> request_data

\* The loop of try_backend_request over candidates k.. with the one dict
\* request_data: what each router tried was handed and what it left in it.
RECURSIVE try_each(_, _, _)
try_each(cands, k, request_data) ==
    IF k > Len(cands) THEN <<>>
    ELSE LET left == handle_request_in_place(cands[k].class, cands[k].actual_model,
                                             request_data)
         IN  <<[class |-> cands[k].class, received |-> request_data, left |-> left]>>
                 \o (IF cands[k].fails THEN try_each(cands, k + 1, left) ELSE <<>>)

\* The backend entries of a configuration, in the order of
\* get_all_backend_configs: the group and the entry's key (its backend_mode).
BackendSlots ==
    <<[model_group |-> "g", backend_mode |-> "openai_backend"],
      [model_group |-> "h", backend_mode |-> "openai_backend"],
      [model_group |-> "h", backend_mode |-> "litellm_backend"]>>

\* BackendConfig: an endpoint.
EndpointsOf(slot) ==
    {[model_group |-> slot.model_group, backend_mode |-> slot.backend_mode,
      base_url |-> u, api_key |-> a, backend_type |-> t]
        : u \in {"u", "w"}, a \in {"a", "b"}, t \in {"", "bogus"}}

\* The configurations the proxy starts with.
StartupConfigs ==
    {<<e1, e2, e3>> : e1 \in EndpointsOf(BackendSlots[1]), e2 \in EndpointsOf(BackendSlots[2]),
                      e3 \in EndpointsOf(BackendSlots[3])}

\* Endpoints of groups that a reloaded configuration adds.
AddedEndpoints ==
    {[model_group |-> g, backend_mode |-> "openai_backend", base_url |-> u, api_key |-> "a",
      backend_type |-> ""] : g \in {"n", "o"}, u \in {"u", "w"}}

\* The configuration of the mock router (its backend_mode is None).
MockConfig ==
    [model_group |-> "", backend_mode |-> "None", base_url |-> "mock.local", api_key |-> "",
     backend_type |-> "mock"]

\* `backend_config.backend_mode or ""`.
mode_or_empty(mode) == IF mode = "None" THEN "" ELSE mode

\* A key that tells the endpoints of two groups apart.
config_key_per_group(e) ==
    <<e.base_url, e.api_key, mode_or_empty(e.backend_mode), e.model_group>>

\* `config_key = (backend_config.base_url, backend_config.api_key, backend_mode)`.
config_key(e) == <<e.base_url, e.api_key, mode_or_empty(e.backend_mode)>>

\* `f"{model_group}.{backend_name}"`.
backend_name(e) == <<e.model_group, e.backend_mode>>

\* backend_manager.routers, _backend_config_map, and the routers built so far.
NoRegistry == [routers |-> <<>>, config_map |-> <<>>, built |-> 0]

\* Position of a name in backend_manager.routers, 0 when absent.
RouterIndex(reg, name) ==
    IF \E k \in DOMAIN reg.routers : reg.routers[k].name = name
    THEN CHOOSE k \in DOMAIN reg.routers : reg.routers[k].name = name
    ELSE 0

\* create_router, register_router and the map's update for one endpoint.
create_and_register(reg, name, e) ==
    LET router == [name |-> name, config |-> e, instance |-> reg.built + 1]
    IN  [routers |-> IF RouterIndex(reg, name) = 0 THEN Append(reg.routers, router)
                     ELSE [reg.routers EXCEPT ![RouterIndex(reg, name)] = router],
         config_map |-> IF name = <<"mock">> THEN reg.config_map
                        ELSE DictSet(reg.config_map, config_key(e), name),
         built |-> reg.built + 1]

\* init_backend_routers: one router per backend entry the factory can build,
\* each under its own name, then the mock router.
RECURSIVE init_backend_routers(_, _, _)
init_backend_routers(backend_configs, k, reg) ==
    IF k > Len(backend_configs) THEN create_and_register(reg, <<"mock">>, MockConfig)
    ELSE LET e == backend_configs[k]
         IN  init_backend_routers(
                 backend_configs, k + 1,
                 IF create_router(e.backend_type, e.backend_mode) = "ValueError" THEN reg
                 ELSE create_and_register(reg, backend_name(e), e))

\* The comparison of a registered router's configuration with an endpoint.
same_config(existing, e) ==
    /\ existing.base_url = e.base_url
    /\ existing.api_key = e.api_key
    /\ existing.backend_mode = e.backend_mode

\* The router found for an endpoint, and the registry with it.
Found(reg, name) ==
    [reg |-> reg, raised |-> FALSE, router_name |-> name,
     instance |-> reg.routers[RouterIndex(reg, name)].instance]

\* One iteration of the loop of get_backend_candidates_for_model: the map's
\* answer; else a registered router of the same configuration; else a router
\* built now under a name made from the URL; "openai_compatible" when that
\* fails, and the factory's exception when it fails again.
candidate_for(reg, e) ==
    LET key == config_key(e)
        mapped == IF key \in DOMAIN reg.config_map THEN reg.config_map[key] ELSE <<>>
        reg1 == IF mapped # <<>> /\ RouterIndex(reg, mapped) = 0
                THEN [reg EXCEPT !.config_map = DictPop(reg.config_map, key)] ELSE reg
        same == {k \in DOMAIN reg1.routers : same_config(reg1.routers[k].config, e)}
        first == CHOOSE k \in same : \A j \in same : k <= j
        plain == <<"backend", e.base_url>>
        made == IF RouterIndex(reg1, plain) # 0 THEN plain \o <<e.base_url, e.api_key>>
                ELSE plain
        fallback == <<"openai_compatible">>
    IN  IF mapped # <<>> /\ RouterIndex(reg, mapped) # 0 THEN Found(reg, mapped)
        ELSE IF same # {}
        THEN Found([reg1 EXCEPT !.config_map =
                        DictSet(reg1.config_map, key, reg1.routers[first].name)],
                   reg1.routers[first].name)
        ELSE IF create_router(e.backend_type, e.backend_mode) # "ValueError"
        THEN Found(create_and_register(reg1, made, e), made)
        ELSE IF /\ RouterIndex(reg1, fallback) # 0
                /\ same_config(reg1.routers[RouterIndex(reg1, fallback)].config, e)
        THEN Found([reg1 EXCEPT !.config_map = DictSet(reg1.config_map, key, fallback)],
                   fallback)
        ELSE [reg |-> reg1, raised |-> TRUE, router_name |-> <<>>, instance |-> 0]

\* Two endpoints resolved one after the other.
candidates_for_two(reg, e1, e2) ==
    LET first == candidate_for(reg, e1)
        second == candidate_for(first.reg, e2)
    IN  [first |-> [raised |-> first.raised, router_name |-> first.router_name,
                    instance |-> first.instance],
         second |-> [raised |-> second.raised, router_name |-> second.router_name,
                     instance |-> second.instance],
         built |-> second.reg.built]

\* The arguments a function is applied to.
FunctionArgs ==
    {[kind |-> "convert", response_data |-> d, virtual_model |-> v]
        : d \in {PyDict(b) : b \in Bodies} \cup {JSONResponseOf(b) : b \in Bodies} \cup {PyStr},
          v \in VirtualModels}
    \cup {[kind |-> "dispatch", router |-> r, response |-> d, convert_to_ollama |-> c,
           stream |-> st, virtual_model |-> v]
        : r \in RouterClasses,
          d \in {JSONResponseOf(b) : b \in Bodies} \cup {AStreamingResponse},
          c \in BOOLEAN, st \in BOOLEAN, v \in VirtualModels}
    \cup {[kind |-> "create_router", backend_type |-> t, backend_mode |-> m]
        : t \in FactoryTypes, m \in FactoryModes}
    \cup {[kind |-> "try", candidates |-> <<c1, c2>>, request_data |-> b]
        : c1 \in DispatchCandidates, c2 \in DispatchCandidates, b \in RequestBodies}
    \cup UNION {{[kind |-> "registry", backend_configs |-> cs, first |-> e1, second |-> e2]
                    : e1 \in {cs[1], cs[2]} \cup {e \in AddedEndpoints : e.model_group = "n"},
                      e2 \in {cs[2], cs[3]} \cup {e \in AddedEndpoints : e.model_group = "o"}}
                 : cs \in StartupConfigs}

Applied(fn, out) == [fn |-> fn, args |-> applied.args, out |-> out]

ConvertToOllamaFormat ==
    /\ applied.fn = "none"
    /\ applied.args.kind = "convert"
    /\ applied' = Applied("ResponseConverter.convert_to_ollama_format",
                          ResponseConverter_convert_to_ollama_format(
                              applied.args.response_data, applied.args.virtual_model))
    /\ UNCHANGED <<envVars, routerVars, requestVars, poolVars, probeVars, resolverVars, cacheVars>>

RouterConvertToOllamaFormat ==
    /\ applied.fn = "none"
    /\ applied.args.kind = "convert"
    /\ \E r \in RouterClasses :
          applied' = [Applied("router.convert_to_ollama_format",
                              router_convert_to_ollama_format(
                                  r, applied.args.response_data, applied.args.virtual_model))
                      EXCEPT !.args = [kind |-> "convert_by", router |-> r,
                                       response_data |-> applied.args.response_data,
                                       virtual_model |-> applied.args.virtual_model]]
    /\ UNCHANGED <<envVars, routerVars, requestVars, poolVars, probeVars, resolverVars, cacheVars>>

BackendManagerConvertResponse ==
    /\ applied.fn = "none"
    /\ applied.args.kind = "dispatch"
    /\ applied' = Applied("BackendManager.handle_request",
                          BackendManager_convert_response(
                              applied.args.router, applied.args.response,
                              applied.args.convert_to_ollama, applied.args.stream,
                              applied.args.virtual_model))
    /\ UNCHANGED <<envVars, routerVars, requestVars, poolVars, probeVars, resolverVars, cacheVars>>

CreateRouter ==
    /\ applied.fn = "none"
    /\ applied.args.kind = "create_router"
    /\ applied' = Applied("create_router",
                          Returns(create_router(applied.args.backend_type,
                                               applied.args.backend_mode)))
    /\ UNCHANGED <<envVars, routerVars, requestVars, poolVars, probeVars, resolverVars, cacheVars>>

\* try_backend_request over its candidates with one request body.
TryBackendRequest ==
    /\ applied.fn = "none"
    /\ applied.args.kind = "try"
    /\ applied' = Applied("try_backend_request",
                          try_each(applied.args.candidates, 1, applied.args.request_data))
    /\ UNCHANGED <<envVars, routerVars, requestVars, poolVars, probeVars, resolverVars, cacheVars>>

\* init_backend_routers at startup, then two endpoints resolved by
\* get_backend_candidates_for_model.
GetBackendCandidates ==
    /\ applied.fn = "none"
    /\ applied.args.kind = "registry"
    /\ applied' = Applied("get_backend_candidates_for_model",
                          candidates_for_two(
                              init_backend_routers(applied.args.backend_configs, 1, NoRegistry),
                              applied.args.first, applied.args.second))
    /\ UNCHANGED <<envVars, routerVars, requestVars, poolVars, probeVars, resolverVars, cacheVars>>

FunctionInit ==
    /\ Quiescent
    /\ CacheFresh
    /\ applied \in {[fn |-> "none", args |-> a] : a \in FunctionArgs}

FunctionNext ==
    \/ ConvertToOllamaFormat
    \/ RouterConvertToOllamaFormat
    \/ BackendManagerConvertResponse
    \/ CreateRouter
    \/ TryBackendRequest
    \/ GetBackendCandidates

FunctionSpec == FunctionInit /\ [][FunctionNext]_vars

\* ------------------------------------------- the OpenAI router on its own
\* Calls of handle_request, the clock's step and its last value.
MaxSdkCalls == 2
SdkTickStep == 150
MaxSdkNow == 450

OpenaiRouters == {r \in GroupRouters : RouterKind(r) = "openai"}

\* OpenAIBackendRouter.handle_request is called; a StreamingResponse it hands
\* back is then drained by the steps of the stream.
OpenaiHandleRequest ==
    /\ pc # "stream"
    /\ served < MaxSdkCalls
    /\ \E r \in OpenaiRouters, stream \in BOOLEAN :
        \E e \in openai_handle_request(World, r, stream) :
            /\ ApplyWorld(e.w)
            /\ applied' = [fn |-> "OpenAIBackendRouter.handle_request",
                           args |-> [router |-> r, stream |-> stream, at |-> now,
                                     sdk_status |-> sdk_status[r],
                                     last_sdk_check |-> last_sdk_check[r]],
                           out |-> [path |-> e.w.path, ok |-> e.result.ok,
                                    sdk_status |-> e.w.sdk_status[r],
                                    last_sdk_check |-> e.w.last_sdk_check[r]]]
            /\ gen' = IF e.result.ok THEN NewGen(e.result.resp) ELSE NoGen
            /\ pc' = IF e.result.ok /\ e.result.resp.type = "stream" THEN "stream" ELSE "done"
    /\ served' = served + 1
    /\ upstream_read' = <<>>
    /\ downstream' = <<>>
    /\ UNCHANGED <<envVars, now, req, loopVars, response, probe, poolVars, probeVars, resolverVars,
                   cacheVars>>

SdkTick ==
    /\ now + SdkTickStep <= MaxSdkNow
    /\ now' = now + SdkTickStep
    /\ UNCHANGED <<envVars, routerVars, served, req, pc, loopVars, response, sent, streamVars,
                   probe, otherVars>>

SdkInit == Init /\ ~hasLocal /\ localRegistered = "mock"

SdkNext ==
    \/ OpenaiHandleRequest
    \/ SdkTick
    \/ StreamStart
    \/ StreamChunk
    \/ StreamFail
    \/ StreamEnd

SdkSpec == SdkInit /\ [][SdkNext]_vars

\* ------------------------------------------------- the local probe: steps
\* One completed call: the time it read, the cache it found, whether it
\* issued the GET (and to which path, with which timeout), and what it returned.
ProbeEntry(p, at, seen, gets, result) ==
    [caller |-> p, at |-> at, done_at |-> now, seen |-> seen, gets |-> gets,
     path |-> IF gets = 0 THEN "" ELSE "/api/tags",
     timeout |-> IF gets = 0 THEN 0 ELSE probe_timeout, result |-> result]

\* check_ollama_available up to its suspension: the simulation flag, the
\* cached answer, or the GET sent.
CheckOllamaAvailableBegin ==
    \E p \in ProbeCallers :
        /\ probing[p].pc = "idle"
        /\ Len(probe_log) + Cardinality({q \in ProbeCallers : probing[q].pc = "get"}) < MaxProbes
        /\ IF SIMULATE_OLLAMA_TIMEOUT
           THEN /\ probe_log' = Append(probe_log,
                                       ProbeEntry(p, now, ollama_available_cache, 0, "False"))
                /\ UNCHANGED <<ollama_available_cache, probing>>
           ELSE IF cache_valid(ollama_available_cache, now)
           THEN /\ probe_log' = Append(probe_log,
                                       ProbeEntry(p, now, ollama_available_cache, 0,
                                                  ollama_available_cache.result))
                /\ UNCHANGED <<ollama_available_cache, probing>>
           ELSE /\ probing' = [probing EXCEPT ![p] =
                                   [pc |-> "get", at |-> now, seen |-> ollama_available_cache]]
                /\ UNCHANGED <<ollama_available_cache, probe_log>>
        /\ UNCHANGED <<envVars, routerVars, requestVars, poolVars, resolverVars, cacheVars,
                       callVars>>

\* check_ollama_available after the GET: the result is stored with the time
\* read before the GET, and returned.
CheckOllamaAvailableDone ==
    \E p \in ProbeCallers, o \in GetOutcomes :
        /\ probing[p].pc = "get"
        /\ ollama_available_cache' =
               [ollama_available_cache EXCEPT !.result = get_result(o),
                                              !.timestamp = probing[p].at]
        /\ probe_log' = Append(probe_log,
                               ProbeEntry(p, probing[p].at, probing[p].seen, 1, get_result(o)))
        /\ probing' = [probing EXCEPT ![p] = NotProbing]
        /\ UNCHANGED <<envVars, routerVars, requestVars, poolVars, resolverVars, cacheVars,
                       callVars>>

\* time.time() moves on; a GET in flight ends within its timeout.
ProbeTick ==
    /\ now + ProbeTickStep <= MaxProbeNow
    /\ \A p \in ProbeCallers :
           probing[p].pc = "get" => now + ProbeTickStep - probing[p].at <= probe_timeout
    /\ now' = now + ProbeTickStep
    /\ UNCHANGED <<envVars, routerVars, served, req, pc, loopVars, response, sent, streamVars,
                   probe, otherVars>>

ProbeInit == PoolInit

ProbeNext ==
    \/ CheckOllamaAvailableBegin
    \/ CheckOllamaAvailableDone
    \/ ProbeTick

ProbeSpec == ProbeInit /\ [][ProbeNext]_vars

\* ------------------------------------------------------------ properties
Ascending(n) == [k \in 1..n |-> k]

\* The response came from the router a candidate names (for `local`, from the
\* router registered under it or from the mock it is rewritten to).
ProducedBy(resp, cand) ==
    resp.origin \in (IF cand.router_name = "local"
                     THEN {UpstreamOf("local"), "mock"}
                     ELSE {UpstreamOf(cand.router_name)})

DispatchSucceeded ==
    /\ req.entry = "try_backend_request"
    /\ pc \in {"stream", "done"}
    /\ response.kind \in {"json", "stream"}

\* C1: in the dispatch loop, when candidates c1..ck fail and c(k+1) succeeds,
\* c1..c(k+1) are each attempted exactly once in configured order, no candidate
\* after c(k+1) is attempted (none of them is sent a request), and the returned
\* response is the one c(k+1) produced.
C1_FallbackInOrder ==
    DispatchSucceeded =>
        /\ attempts = Ascending(Len(errors) + 1)
        /\ Len(attempts) <= Len(candidates)
        /\ ProducedBy(response, candidates[Len(attempts)])
        /\ \A n \in (Len(attempts) + 1)..Len(candidates) :
              sent[UpstreamOf(candidates[n].router_name)] = 0

\* Two candidates failed and the third answered.
C1_Witness ==
    /\ DispatchSucceeded
    /\ Len(errors) = 2
    /\ response.kind = "json"
    /\ response.origin = UpstreamOf(candidates[3].router_name)

\* C2: a request to POST /api/generate or POST /v1/chat/completions for a model
\* whose group has endpoints [E1, E2], with E1 answering HTTP 500, is answered
\* with the response E2 produced (in Ollama shape on /api/generate), after
\* exactly one request to E1 and exactly one to E2.  The handlers dispatch to
\* the first candidate only, so this does not hold of them.
C2_HandlerFailsOver ==
    (/\ req.entry \in {"generate", "openai_chat_completions"}
     /\ pc = "done"
     /\ Len(candidates) >= 2
     /\ errors # <<>>
     /\ errors[1].upstream_status = 500)
    => /\ response.kind = "json"
       /\ response.origin = UpstreamOf(candidates[2].router_name)
       /\ (req.entry = "generate" => response.shape = "ollama")
       /\ sent[UpstreamOf(candidates[1].router_name)] = 1
       /\ sent[UpstreamOf(candidates[2].router_name)] = 1

\* C3: once a candidate's streaming response has produced at least one byte, no
\* step of the same request attempts another candidate, whatever happens to the
\* stream afterwards.
C3_NoFailoverAfterFirstByte ==
    [][(Concat(downstream) # <<>> /\ served' = served) => attempts' = attempts]_vars

\* A stream that forwarded bytes and then failed, with candidates left untried.
C3_Witness ==
    /\ req.entry = "try_backend_request"
    /\ pc = "done"
    /\ gen.error
    /\ gen.chunks >= 1
    /\ Len(downstream) >= 2
    /\ Len(attempts) < Len(candidates)

\* The upstream call of a stream failed before any byte was forwarded: a
\* connection error or a non-2xx status.
FailedBeforeFirstByte ==
    /\ gen.kind \in {"base", "ollama"}
    /\ gen.phase = "finished"
    /\ gen.error
    /\ gen.chunks = 0
    /\ gen.status # 200

\* C4: for a streaming request, when a candidate's upstream call fails before
\* any byte has been forwarded, the error reaches the dispatch loop, which
\* remembers it and attempts the next candidate.  The routers issue the call
\* inside the generator, after the loop has returned, so this does not hold.
C4_PreStreamErrorFailsOver ==
    (req.entry = "try_backend_request" /\ req.stream /\ FailedBeforeFirstByte)
    => \E n \in 1..Len(errors) :
          /\ errors[n].origin = UpstreamOf(gen.router)
          /\ (n = Len(candidates) \/ Len(attempts) > n)

AllFailed ==
    /\ req.entry = "try_backend_request"
    /\ pc = "done"
    /\ response.kind = "error"
    /\ candidates # <<>>

C6_VerbatimForwarding ==
    (gen.kind \in {"base", "ollama"} /\ ~gen.error)
    => Concat(downstream) = Concat(upstream_read)

\* C7: a transport error after a streaming response has begun, on the HTTP or
\* the SDK streaming path, ends in a framed error chunk and a normal end of
\* stream; the exception does not leave the generator.  The SDK generator has
\* no handler, so this does not hold of it.
C7_MidStreamErrorFramed ==
    (gen.kind \in {"base", "sdk"} /\ gen.error /\ gen.chunks >= 1)
    => /\ gen.phase = "finished"
       /\ downstream # <<>>
       /\ downstream[Len(downstream)] = SseFrame(<<"ERR_EXC">>)

\* C8: a streaming upstream call answered with a non-2xx status yields exactly
\* one framed error chunk carrying the upstream body text (an SSE data frame
\* ended by a blank line, or one newline-terminated NDJSON line) and nothing
\* else.  The NDJSON chunk has no newline and the base path carries the
\* exception's text, so this does not hold.
C8_Non2xxOneFramedChunk ==
    (gen.kind \in {"base", "ollama"} /\ gen.phase = "finished" /\ gen.status \notin {0, 200})
    => downstream = <<IF gen.sse THEN SseFrame(<<"ERR_BODY">>) ELSE <<"ERR_BODY", "NL">>>>

\* C9: a request whose model string does not resolve (no group lists it and
\* there is no `local` group, or the candidate list is empty) is answered with
\* HTTP 404.  An unresolved model becomes the `local` candidate, so this does
\* not hold.
C9_UnresolvedIs404 ==
    (/\ req.entry # "none"
     /\ req.body # "invalid"
     /\ pc \in {"stream", "done"}
     /\ (~get_model_config(req.model).found \/ candidates = <<>>))
    => /\ response.kind = "error"
       /\ response.status_code = 404

\* C10: when a non-streaming upstream call answers a non-2xx status s and no
\* candidate succeeds, the client receives an error whose HTTP status is s.
\* Every layer re-raises with status 500, so this does not hold.
C10_UpstreamStatusPreserved ==
    (/\ req.entry # "none"
     /\ pc = "done"
     /\ ~req.stream
     /\ response.kind = "error"
     /\ errors # <<>>
     /\ errors[Len(errors)].upstream_status \notin {0, 200})
    => response.status_code = errors[Len(errors)].upstream_status

\* C11: a POST /v1/chat/completions whose body cannot be parsed as JSON even
\* after re-decoding with replacement characters is answered with HTTP 400.
\* The handler's outer `except Exception` re-raises the 400 as 500, so this does
\* not hold.
C11_BadJsonIs400 ==
    (req.entry = "openai_chat_completions" /\ req.body = "invalid" /\ pc = "done")
    => /\ response.kind = "error"
       /\ response.status_code = 400

\* ------------------------------------------------------ client pool claims

\* C12: a release that brings a key's reference count to zero closes the client
\* exactly once and removes the entry; no entry with a count of zero or less is
\* ever in the pool, and every client created is either pooled and open or
\* removed and closed exactly once.
C12_ZeroRefClosedAndRemoved ==
    /\ DOMAIN clients = DOMAIN ref_counts
    /\ \A key \in DOMAIN ref_counts : ref_counts[key] >= 1
    /\ \A id \in DOMAIN close_count :
           close_count[id] = IF id \in DictValues(clients) THEN 0 ELSE 1
    /\ \A n \in DOMAIN log :
           (log[n].op = "release_client" /\ log[n].zero)
           => /\ log[n].client # 0
              /\ close_count[log[n].client] = 1

\* A release has brought a count to zero and closed a client.
C12_Witness ==
    \E n \in DOMAIN log :
        /\ log[n].op = "release_client"
        /\ log[n].zero
        /\ close_count[log[n].client] = 1
        /\ log[n].client \notin DictValues(clients)

\* C13: when the downstream connection of a streaming response drops, the
\* router that acquired the pooled client releases it: the step that ends the
\* stream lowers the reference count of the router's key or removes the key.
C13_DroppedStreamReleases ==
    [][\A r \in Routers :
          (r \in streaming /\ r \notin streaming' /\ client_key(RouterArgs(r)) \in DOMAIN ref_counts)
          => \/ client_key(RouterArgs(r)) \notin DOMAIN ref_counts'
             \/ ref_counts'[client_key(RouterArgs(r))] < ref_counts[client_key(RouterArgs(r))]]_vars

\* C14: an acquire that finds a pooled client idle for more than 30 seconds
\* makes the HEAD health check before it hands out a client; when the HEAD
\* fails (an error, or no answer within 2 seconds) the old client is closed and
\* removed and the client returned is a new object.
C14_IdleClientHealthChecked ==
    \A n \in DOMAIN log :
        (log[n].acquired /\ log[n].previous # 0)
        => /\ (log[n].idle > 30) => log[n].head # "none"
           /\ (log[n].head = "fail")
              => /\ log[n].client # log[n].previous
                 /\ close_count[log[n].previous] = 1
                 /\ log[n].previous \notin DictValues(clients)
                 /\ \A m \in 1..(n - 1) : log[m].client # log[n].client
           /\ (log[n].head = "ok") => log[n].client = log[n].previous

\* An acquire met a client idle for more than 30 seconds whose HEAD failed.
C14_Witness ==
    \E n \in DOMAIN log :
        /\ log[n].acquired
        /\ log[n].idle > 30
        /\ log[n].head = "fail"
        /\ log[n].client # log[n].previous

\* C15: a client that failed its health check is never used again: no later
\* upstream request is sent on it, by the caller whose acquire found the
\* failure or by a router that obtained the client earlier.
C15_FailedClientNeverReused ==
    \A n \in DOMAIN log :
        (log[n].acquired /\ log[n].head = "fail")
        => \A m \in DOMAIN log : (m > n) => log[m].sent_on # log[n].previous

\* C16: two consecutive acquires with the same pool key (the base URL with its
\* trailing '/' trimmed, the API key, the compression flag), with no release to
\* zero and no close_all between them and less than 30 seconds apart, return
\* the same client object.
C16_SameKeySameClient ==
    \A n, m \in DOMAIN log :
        (/\ n < m
         /\ log[n].acquired
         /\ log[m].acquired
         /\ SelectSeq(log[n].args.base_url, LAMBDA ch : ch # "/")
              = SelectSeq(log[m].args.base_url, LAMBDA ch : ch # "/")
         /\ log[n].args.api_key = log[m].args.api_key
         /\ log[n].args.compression = log[m].args.compression
         /\ \A k \in (n + 1)..(m - 1) : ~log[k].acquired /\ ~log[k].zero
         /\ log[m].at - log[n].at < 30)
        => log[m].client = log[n].client

\* Two such acquires, one with the base URL written with a trailing '/', some
\* time apart.
C16_Witness ==
    \E n, m \in DOMAIN log :
        /\ n < m
        /\ log[n].acquired
        /\ log[m].acquired
        /\ log[n].args.base_url # log[m].args.base_url
        /\ client_key(log[n].args) = client_key(log[m].args)
        /\ \A k \in (n + 1)..(m - 1) : ~log[k].acquired /\ ~log[k].zero
        /\ log[m].at - log[n].at \in 1..29
        /\ log[m].client = log[n].client

\* The log entries that satisfy P.
Entries(P(_)) == {n \in DOMAIN log : P(log[n])}

\* C17: acquire, release and close_all exclude each other on the pool maps: at
\* most one of them is inside its locked section, and it holds the lock.  Under
\* every interleaving of acquires, a key has one client that every caller
\* since its creation received, and its reference count is the number of those
\* callers less the releases.
C17_PoolOperationsExclusive ==
    /\ Cardinality({c \in PoolCallers : inflight[c].pc = "head"})
          + (IF lock = "close_all" THEN 1 ELSE 0) <= 1
    /\ \A c \in PoolCallers : (inflight[c].pc = "head") <=> (lock = c)
    /\ \A key \in DOMAIN clients :
          LET cl == clients[key]
              got(e) == e.acquired /\ e.client = cl
              gave(e) == e.op = "release_client" /\ e.client = cl
          IN  /\ \A other \in DOMAIN clients : (clients[other] = cl) => other = key
              /\ \A n \in Entries(got) : client_key(log[n].args) = key
              /\ ref_counts[key] = Cardinality(Entries(got)) - Cardinality(Entries(gave))
    /\ Len(close_count) = Cardinality({log[n].client : n \in Entries(LAMBDA e : e.acquired)})

\* Two callers acquired the same absent key, one after the other with nothing
\* between: one client, a count of two.
C17_Witness ==
    \E n \in DOMAIN log :
        /\ n + 1 \in DOMAIN log
        /\ log[n].acquired
        /\ log[n].previous = 0
        /\ log[n + 1].acquired
        /\ log[n + 1].caller # log[n].caller
        /\ log[n + 1].client = log[n].client
        /\ log[n + 1].at = log[n].at
        /\ client_key(log[n].args) \in DOMAIN ref_counts
        /\ ref_counts[client_key(log[n].args)] = 2
        /\ Len(close_count) = 1

\* ------------------------------------------------------ local dispatch claims

\* C18: when the candidate's router name is `local` and the local probe reports
\* down at dispatch, the attempt is served by `mock` and no request goes to the
\* local Ollama daemon, on /api/generate and on /v1/chat/completions alike.
C18_LocalDownServedByMock ==
    (/\ req.entry \in {"generate", "openai_chat_completions"}
     /\ pc \in {"stream", "done"}
     /\ probe = "down")
    => /\ response.kind \in {"json", "stream"}
       /\ response.origin = "mock"
       /\ sent["localhost"] = 0

\* C19: at every dispatch at which the local probe reports up, `local` is
\* served by an Ollama router, not by mock.
C19_LocalUpServedByOllama ==
    (/\ req.entry \in {"generate", "openai_chat_completions"}
     /\ pc \in {"stream", "done"}
     /\ probe = "up")
    => /\ RouterKind("local") = "ollama"
       /\ response.kind \in {"json", "stream"} => response.origin # "mock"

\* ------------------------------------------------- configuration reload claim

\* C20: resolution is a pure function of the configuration loaded last and the
\* model string: after any sequence of loads and lookups, a lookup returns
\* what a loader that has only ever loaded the current configuration returns.
C20_ResolutionIsPure ==
    (lookup # NoLookup)
    => lookup.result = ConfigLoader_get_model_config(
                           ConfigLoader_load(NewLoader, config_data), lookup.model_name)

\* ------------------------------------------------------- resolution claims
\* The groups of the loaded configuration that list model name m.
ListedIn(m) ==
    {config_data[n].group : n \in {k \in DOMAIN config_data :
                                      m \in DOMAIN config_data[k].available_models}}

\* Looking up `name` yields group g and actual name m.
ResolvesTo(name, g, m) ==
    LET result == ConfigLoader_get_model_config(Loader, name)
    IN  /\ result.found
        /\ result.model_config.model_group = g
        /\ result.actual_model_name = m

\* The name can be read as `group/inner` for a group the loader knows that
\* lists inner.
ReadsAsGroupAndInner(m) ==
    /\ Len(m) >= 2
    /\ m[1] \in DOMAIN self_models
    /\ Tail(m) \in self_models[m[1]].available_models

KeyIndex(keys, key) == CHOOSE k \in DOMAIN keys : keys[k] = key

SameToolsTwice(j, k) ==
    /\ j < k
    /\ enabled.tools
    /\ calls[j].kind = "request" /\ calls[k].kind = "request"
    /\ calls[j].session = calls[k].session
    /\ calls[j].tools_in # <<>>
    /\ calls[j].tools_in = calls[k].tools_in
    /\ calls[k].at - calls[j].at < tools_ttl
    /\ \A c \in 1..(k - 1) :
          (c # j /\ calls[c].kind = "request" /\ calls[c].session = calls[j].session)
              => calls[c].tools_in = <<>>

\* One compression, on the first request, one cache hit, on the second, and
\* the same compressed tools out of both.
OneCompressionOneHit(j, k) ==
    /\ calls[j].compressed /\ ~calls[j].hit
    /\ calls[k].hit /\ ~calls[k].compressed
    /\ calls[j].tools_out = compress_tools(calls[j].tools_in)
    /\ calls[k].tools_out = calls[j].tools_out

\* The sessions that have sent tools to the router up to call k.
SessionsUpTo(k) ==
    {calls[c].session : c \in {d \in 1..k : calls[d].kind = "request" /\ calls[d].tools_in # <<>>}}
        \cup {Sess("other", n) : n \in {n \in 1..max_cache_size :
                 \E c \in 1..k : calls[c].kind = "burst" /\ n <= calls[c].others}}

CommonPrefixLen(a, b) ==
    LET shorter == IF Len(a) < Len(b) THEN Len(a) ELSE Len(b)
        agree == {n \in 0..shorter : SubSeq(a, 1, n) = SubSeq(b, 1, n)}
    IN  CHOOSE n \in agree : \A o \in agree : o <= n

\* The content the statement expects for a prefix of 50 characters or more:
\* the marker's opening, the prefix's first 30 characters, the marker's
\* middle, the prefix's last 30 characters, the marker's end, then the rest.
ElidedContent(content, n) ==
    <<"<head">> \o SubSeq(content, 1, 30) \o <<"....tail">> \o SubSeq(content, n - 29, n)
        \o <<">">> \o SubSeq(content, n + 1, Len(content))

\* C24: a request of a session that has a benchmark goes out with the common
\* prefix of its last user message and the benchmark elided, the benchmark
\* kept, when that prefix has 50 characters or more; else it goes out as it
\* came and the benchmark becomes its content.
C24_PromptPrefixElided ==
    \A k \in DOMAIN calls :
        (/\ calls[k].kind = "request"
         /\ enabled.prompt
         /\ calls[k].had_benchmark
         /\ calls[k].content_in # <<>>)
        => LET n == CommonPrefixLen(calls[k].content_in, calls[k].benchmark_before)
           IN  IF n >= 50
               THEN /\ calls[k].content_out = ElidedContent(calls[k].content_in, n)
                    /\ calls[k].benchmark_after = calls[k].benchmark_before
               ELSE /\ calls[k].content_out = calls[k].content_in
                    /\ calls[k].benchmark_after = calls[k].content_in

\* The last call translated `body`, handed over as a dict or as a
\* JSONResponse, for virtual model v: by the shared converter, by the OpenAI
\* router's own method, or by the dispatch layer for a non-stream answer of
\* an OpenAI router.
TranslatedByConverter(body, v) ==
    /\ applied.fn = "ResponseConverter.convert_to_ollama_format"
    /\ applied.args.response_data \in {PyDict(body), JSONResponseOf(body)}
    /\ applied.args.virtual_model = v
TranslatedByRouter(body, v) ==
    /\ applied.fn = "router.convert_to_ollama_format"
    /\ applied.args.router = "openai"
    /\ applied.args.response_data \in {PyDict(body), JSONResponseOf(body)}
    /\ applied.args.virtual_model = v
TranslatedByDispatch(body, v) ==
    /\ applied.fn = "BackendManager.handle_request"
    /\ applied.args.router = "openai"
    /\ applied.args.convert_to_ollama /\ ~applied.args.stream
    /\ v # ""
    /\ applied.args.response = JSONResponseOf(body)
    /\ applied.args.virtual_model = v

\* C25: a chat completion with choices[0].message.content = s and
\* usage.total_tokens = n, translated for virtual model v, gives exactly
\* {model: v, response: s, done: true, total_duration: 50000000 * n}.
C25_TranslationOfChatCompletion ==
    \A s \in Contents, n \in 0..MaxTokens, v \in VirtualModels :
        LET body == ChatCompletionWithUsage(s, n)
            ollama == [model |-> v, response |-> s, done |-> TRUE,
                       total_duration |-> 50000000 * n]
        IN  /\ TranslatedByConverter(body, v) => applied.out = Returns(ollama)
            /\ TranslatedByRouter(body, v) => applied.out = Returns(ollama)
            /\ TranslatedByDispatch(body, v) => applied.out = Returns(JSONResponseOf(ollama))

\* The dispatch layer has translated the JSONResponse of an OpenAI router
\* that carried "hi" and two tokens.
C25_Witness ==
    /\ TranslatedByDispatch(ChatCompletionWithUsage("hi", MaxTokens), "v")
    /\ applied.out.raised = ""
    /\ json_loads(decode(applied.out.value.body)).total_duration = 50000000 * MaxTokens
    /\ json_loads(decode(applied.out.value.body)).response = "hi"

\* C26: a response without a `choices` field comes back from the translation
\* as it went in, and the translation does not fail, also when the dispatch
\* layer runs it on the non-stream answer of an OpenAI router.
C26_NoChoicesPassesThrough ==
    \A body \in BodiesWithoutChoices, v \in VirtualModels :
        /\ TranslatedByConverter(body, v) => applied.out = Returns(body)
        /\ TranslatedByRouter(body, v) => applied.out = Returns(body)
        /\ TranslatedByDispatch(body, v) => applied.out = Returns(JSONResponseOf(body))

\* backend_mode equals or starts with `prefix`_backend.
ModeStartsWith(mode, prefix) ==
    /\ Len(ModeWords(mode)) >= 2
    /\ SubSeq(ModeWords(mode), 1, 2) = <<prefix, "_backend">>

\* C27: with no backend_type, a backend_mode that equals or starts with
\* openai_backend, or starts with litellm_backend, gives the OpenAI driver,
\* and the factory never builds a LiteLLM driver.
C27_NoSeparateLiteLLMDriver ==
    applied.fn = "create_router"
        => /\ (/\ applied.args.backend_type = ""
               /\ \/ ModeStartsWith(applied.args.backend_mode, "openai")
                  \/ ModeStartsWith(applied.args.backend_mode, "litellm"))
              => applied.out = Returns("openai")
           /\ applied.out # Returns("litellm")

\* The last function applied was OpenAIBackendRouter.handle_request.
HandledByOpenaiRouter == applied.fn = "OpenAIBackendRouter.handle_request"

SdkTried(tried) == tried \in {"sdk:ok", "sdk:stream", "sdk:auth", "sdk:other", "sdk:absent"}
SdkFailed(tried) == tried \in {"sdk:auth", "sdk:other", "sdk:absent"}

\* The stream the SDK path handed back has failed.
SdkStreamFailed == gen.kind = "sdk" /\ gen.error

\* C28: the router goes straight to HTTP exactly when its SDK status was
\* `unavailable` and less than 300 s had passed since the last SDK check; in
\* every other state it tries the SDK first.
C28_SdkSkippedOnlyWhileUnavailable ==
    HandledByOpenaiRouter
        => LET path == applied.out.path
               skip == /\ applied.args.sdk_status = "unavailable"
                       /\ applied.args.at - applied.args.last_sdk_check < 300
           IN  /\ path # <<>>
               /\ skip => path = <<"http">>
               /\ ~skip => SdkTried(path[1])

\* A router marked unavailable at 0 is called again at 300 and tries the SDK.
C28_Witness ==
    /\ HandledByOpenaiRouter
    /\ applied.args.sdk_status = "unavailable"
    /\ applied.args.at - applied.args.last_sdk_check = 300
    /\ SdkTried(applied.out.path[1])

\* C29: the SDK status changes only so: a successful SDK call makes it
\* `available`; the SDK being absent, or an authentication-shaped failure,
\* makes it `unavailable`; any other SDK failure leaves it as it was.
C29_SdkStatusTransitions ==
    HandledByOpenaiRouter
        => LET path == applied.out.path
               tried == {path[k] : k \in DOMAIN path}
               before == applied.args.sdk_status
               after == applied.out.sdk_status
           IN  /\ "sdk:ok" \in tried => after = "available"
               /\ ("sdk:auth" \in tried \/ "sdk:absent" \in tried) => after = "unavailable"
               /\ "sdk:other" \in tried => after = before
               /\ path = <<"http">> => after = before
               /\ SdkStreamFailed
                    => sdk_status[applied.args.router] \in {"unavailable", before}

\* C30: whenever the SDK path fails for a request, streaming or not, the
\* request is then attempted over HTTP.
C30_SdkFailureFallsBackToHttp ==
    HandledByOpenaiRouter
        => LET path == applied.out.path
           IN  /\ \A k \in DOMAIN path :
                     SdkFailed(path[k]) => (k < Len(path) /\ path[k + 1] = "http")
               /\ SdkStreamFailed => \E k \in DOMAIN path : path[k] = "http"

\* ---------------------------------------------------------------------------
\* Held clients, router references, the local probe, cache use and eviction
\* ---------------------------------------------------------------------------

\* Router r keeps the client it was handed in self._client and never releases it.
HeldByRouter(r) == router_client[r]

\* The step closes client id.
ClosedInStep(id) == id \in DOMAIN close_count /\ close_count'[id] > close_count[id]

\* C31: while a caller holds a client it acquired and has not released, the
\* pool does not close that client outside close_all: no get_client of
\* another caller, through its health check, closes a client a router holds.
C31_HeldClientNotClosedByHealthCheck ==
    [][\A r \in Routers :
          (HeldByRouter(r) # 0 /\ ClosedInStep(HeldByRouter(r)))
              => \A c \in PoolCallers : inflight[c].pc # "head"]_vars

\* The calls of get_client router r has completed.
AcquiresOf(r) == {n \in DOMAIN log : log[n].caller = r /\ log[n].acquired}

\* C32: a router holds at most one pool reference: whatever the interleaving
\* of the requests it handles while its client is not yet initialised, it
\* calls get_client once.
C32_RouterAcquiresOnce == \A r \in Routers : Cardinality(AcquiresOf(r)) <= 1

\* The call answered from the cache: no GET, the cached result returned.
FromCache(e) == e.gets = 0 /\ e.result = e.seen.result

\* The call issued one GET to /api/tags with the 1 s timeout.
OneGet(e) == e.gets = 1 /\ e.path = "/api/tags" /\ e.timeout = 1

RequestHandled == Len(calls') = Len(calls) + 1 /\ calls'[Len(calls')].kind = "request"
Handled == calls'[Len(calls')]

\* The tools entry the cache held for the request's session before the step.
ToolsEntryBefore == tools_cache[CacheIndex(tools_cache, Handled.session)]

\* C34: a cached tools entry is substituted into a request only if it belongs
\* to the request's session, carries the hash of the request's tools and is
\* less than 300 s old; when the session's entry has expired the request's
\* tools are compressed again and the cache then holds the new compression
\* under the time of the request.
C34_ToolsEntryUsedOnlyWhileValid ==
    [][RequestHandled =>
          /\ Handled.hit =>
                /\ CacheIndex(tools_cache, Handled.session) # 0
                /\ ToolsEntryBefore.session = Handled.session
                /\ ToolsEntryBefore.hash = tools_hash(Handled.tools_in)
                /\ Handled.at - ToolsEntryBefore.timestamp < 300
                /\ Handled.tools_out = ToolsEntryBefore.compressed
          /\ (/\ CacheIndex(tools_cache, Handled.session) # 0
              /\ Handled.at - ToolsEntryBefore.timestamp >= 300
              /\ Handled.tools_in # <<>>
              /\ enabled.tools) =>
                /\ ~Handled.hit
                /\ Handled.compressed
                /\ Handled.tools_out = compress_tools(Handled.tools_in)
                /\ CacheIndex(tools_cache', Handled.session) # 0
                /\ tools_cache'[CacheIndex(tools_cache', Handled.session)] =
                       [session |-> Handled.session, hash |-> tools_hash(Handled.tools_in),
                        compressed |-> Handled.tools_out, timestamp |-> Handled.at]]_vars

\* A request whose tools were cached 300 s earlier for its session was handled
\* after one that was answered from the cache.
C34_Witness ==
    \E n \in DOMAIN calls, m \in DOMAIN calls, k \in DOMAIN calls :
        /\ n < m /\ m < k
        /\ calls[n].kind = "request" /\ calls[m].kind = "request" /\ calls[k].kind = "request"
        /\ calls[n].session = calls[m].session /\ calls[m].session = calls[k].session
        /\ calls[n].compressed /\ calls[m].hit
        /\ calls[k].tools_in = calls[n].tools_in
        /\ calls[k].at - calls[n].at >= 300
        /\ calls[k].compressed

\* C35: after every request a router has handled, its tools cache and its
\* prompt cache hold at most 100 entries each.
C35_CachesAtMostHundred == Len(tools_cache) <= 100 /\ Len(prompt_cache) <= 100

\* A session cached its tools and its prompt, then 100 other sessions did at
\* the same time: 101 sessions asked for an entry and each cache holds 100.
C35_Witness ==
    /\ Len(calls) >= 2
    /\ calls[1].kind = "request" /\ calls[1].compressed /\ calls[1].benchmark_after # <<>>
    /\ calls[2].kind = "burst" /\ calls[2].others = 100 /\ calls[2].at = calls[1].at
    /\ Len(tools_cache) = 100
    /\ Len(prompt_cache) = 100

\* How often the tools entry of a session has been read since it was stored:
\* the hits of the session after its last compression.
RECURSIVE AccessCount(_, _)
AccessCount(session, n) ==
    IF n = 0 THEN 0
    ELSE IF calls[n].kind = "request" /\ calls[n].session = session
    THEN IF calls[n].hit THEN 1 + AccessCount(session, n - 1)
         ELSE IF calls[n].compressed THEN 0 ELSE AccessCount(session, n - 1)
    ELSE AccessCount(session, n - 1)

\* The step drops the session's unexpired tools entry although no request of
\* the session was handled: the cache was over its size.
EvictedInStep(session) ==
    /\ CacheIndex(tools_cache, session) # 0
    /\ cache_time - tools_cache[CacheIndex(tools_cache, session)].timestamp < tools_ttl
    /\ CacheIndex(tools_cache', session) = 0

\* C36: when a session cache overflows its maximum size, the entries evicted
\* are those with the lowest access count: no evicted entry has been read
\* more often than an entry that stays.
C36_LeastAccessedEvictedFirst ==
    [][\A gone \in {tools_cache[k].session : k \in DOMAIN tools_cache} :
          EvictedInStep(gone) =>
              \A k \in DOMAIN tools_cache' :
                  AccessCount(gone, Len(calls)) <= AccessCount(tools_cache'[k].session, Len(calls))]_vars

\* try_backend_request has been applied; Tried is what its candidates were
\* handed and left.
TriedBackends == applied.fn = "try_backend_request"
Tried == applied.out

\* C37: a failed attempt on one candidate leaves the request body unchanged:
\* every later candidate of the dispatch receives the body the inbound handler
\* built.
C37_LaterCandidatesReceiveSameBody ==
    TriedBackends =>
        \A k \in DOMAIN Tried : Tried[k].received = applied.args.request_data

\* C39: every router variant, OpenAI, Ollama and mock, applies the tools cache
\* and the prompt cache to the request before its upstream call or its
\* response: the tools a router goes on with are the compressed ones.
C39_EveryRouterOptimizes ==
    TriedBackends =>
        \A k \in DOMAIN Tried : Tried[k].left.tools = compress_tools(Tried[k].received.tools)

\* Requests n and m came without a session_id and with different first messages.
SessionlessAndDifferent(n, m) ==
    /\ calls[n].kind = "request" /\ calls[m].kind = "request"
    /\ calls[n].session_id = NoSession /\ calls[m].session_id = NoSession
    /\ calls[n].first_content # <<>> /\ calls[m].first_content # <<>>
    /\ calls[n].first_content # calls[m].first_content

\* C38: the key of both caches is the request's session_id when it has one;
\* when it has none the key is derived from the content of its first message,
\* so that requests with different first messages have different keys.
C38_SessionKeyFromRequest ==
    /\ \A n \in DOMAIN calls :
          (calls[n].kind = "request" /\ calls[n].session_id # NoSession)
              => calls[n].session = calls[n].session_id
    /\ \A n \in DOMAIN calls, m \in DOMAIN calls :
          SessionlessAndDifferent(n, m) => calls[n].session # calls[m].session

\* Two endpoints have been resolved against the registry built at startup.
ResolvedTwo == applied.fn = "get_backend_candidates_for_model"

\* C40: two configured endpoints with equal (base_url, api_key, backend_mode)
\* are dispatched to one and the same router instance.
C40_EqualKeySameRouter ==
    (/\ ResolvedTwo
     /\ applied.args.first.base_url = applied.args.second.base_url
     /\ applied.args.first.api_key = applied.args.second.api_key
     /\ applied.args.first.backend_mode = applied.args.second.backend_mode
     /\ ~applied.out.first.raised /\ ~applied.out.second.raised)
        => /\ applied.out.first.router_name = applied.out.second.router_name
           /\ applied.out.first.instance = applied.out.second.instance

\* Two endpoints of two groups with one URL, key and mode, each with a router
\* of its own built at startup, were resolved to one instance.
C40_Witness ==
    /\ ResolvedTwo
    /\ applied.args.first = applied.args.backend_configs[1]
    /\ applied.args.second = applied.args.backend_configs[2]
    /\ applied.args.first.base_url = applied.args.second.base_url
    /\ applied.args.first.api_key = applied.args.second.api_key
    /\ applied.args.first.backend_type = "" /\ applied.args.second.backend_type = ""
    /\ applied.out.built >= 3
    /\ ~applied.out.first.raised
    /\ applied.out.first.instance = applied.out.second.instance

====
